---- MODULE Spec2Model ----
(***************************************************************************)
(* A model of the eris agent (src/eris): the resource abstraction and its  *)
(* CPU-quota implementation, the naive controller, the utilization loop,   *)
(* the per-container contention detection, the metrics loop, the timing   *)
(* of monitor, main with its two monitor threads, the processes the cycles *)
(* start, a record's metrics history, and the threshold builder            *)
(* (analyze.py) with its fences and utilization bins.                      *)
(*                                                                         *)
(* Utilization values are fixed-point numbers counting hundredths of a     *)
(* percent (Percent(20) is 20%), so that a fractional utilization and the  *)
(* truncation int(quota_step) are both exact.  quota_step of the source is *)
(* always quota_max / 20 (both are assigned together, cpuquota.py 56-57),  *)
(* so the model keeps quota_max and derives the step from it.              *)
(***************************************************************************)
EXTENDS Integers, Sequences, FiniteSets, TLC

(***************************************************************************)
(* Program constants                                                       *)
(***************************************************************************)
BUGET_LEV_FULL == -1
BUGET_LEV_MIN == 0
BUGET_LEV_MAX == 20

CPU_QUOTA_DEFAULT == -1
CPU_QUOTA_MIN == 1000
CPU_QUOTA_CORE == 100000
CPU_QUOTA_PERCENT == CPU_QUOTA_CORE \div 100

(***************************************************************************)
(* Bounds of the model                                                     *)
(***************************************************************************)
MaxCycThresh == 3
MaxBins == 3
MaxUtil == 5

(* p percent as a model utilization value (hundredths of a percent) *)
Percent(p) == p * 100

(* The BE containers a controller call can be handed, and the values a     *)
(* read of cpu.cfs_period_us yields (0: the read gave no integer).         *)
BeCids == {"be1", "be2"}
Periods == {0, 50000, 100000}

(* System-max utilizations (integer percent) the agent can start from: the *)
(* content of lcmax.txt.                                                   *)
SysMaxInit == {10, 20}

(* Python's int(a / b) for b > 0: truncation toward zero *)
IntDiv(a, b) == IF a >= 0 THEN a \div b ELSE -((-a) \div b)

(* The containers of the utilization loop and their workload class          *)
(* (ctx.lc_set, ctx.be_set)                                                 *)
UtilCids == {"lc1", "be1", "be2"}
lc_set == {"lc1"}
be_set == {"be1", "be2"}

(* What a utilization sample of an LC / a BE container can come to, and the *)
(* configurations of the agent: --margin-ratio in tenths, --quota-cycles    *)
LcUtils == {Percent(5), Percent(22) + 1}
BeUtils == {0, Percent(3)}
MarginTenths == {0, 1}
QuotaCycles == {1, 2}
LlcCycles == {1, 2}

VARIABLES
    cpuq,               \* ctx.cpuq: the CpuQuota resource
    quota_controller,   \* the NaiveController of ctx.cpuq
    call,               \* the last operation applied and what it was given
    quiet,              \* quiet calls in a row since (MIN, counter 0); -1: none
    args,               \* ctx.args: the agent's configuration
    sysmax_util,        \* ctx.sysmax_util, integer percent
    util_cons,          \* ctx.util_cons: the utilization loop's records
    lc,                 \* an LC Container record: utils, metrics, thresholds
    det,                \* what the detection methods last returned for lc
    metric_cons,        \* ctx.metric_cons: the metrics loop's records
    llc,                \* ctx.llc: the LlcOccup resource
    llc_controller,     \* the NaiveController of ctx.llc
    metric_thread,      \* the metrics thread: "running" or "raised"
    interrupt,          \* ctx.interrupt
    loop_pc,            \* where each monitor loop stands
    main_pc,            \* where main stands
    exit_code,          \* the exit code of the process; -1: still running
    timer,              \* monitor's clock: time.time(), next_time, the cycle
    procs,              \* the processes started with Popen and their targets
    builder             \* analyze.py: the data, the bin reached, thresh.csv

ctrlVars == <<cpuq, quota_controller, call, quiet>>
utilVars == <<args, sysmax_util, util_cons>>
detVars == <<lc, det>>
metricVars == <<metric_cons, llc, llc_controller, metric_thread>>
agentVars == <<interrupt, loop_pc, main_pc, exit_code, timer, procs>>
builderVars == <<builder>>
vars == <<ctrlVars, utilVars, detVars, metricVars, agentVars, builderVars>>

(***************************************************************************)
(* Values of the variables a specification does not use                    *)
(***************************************************************************)
NoArgs ==
    [control |-> FALSE, enable_hold |-> FALSE, margin_tenths |-> 0,
     detect |-> FALSE, disable_cat |-> FALSE]
NoRecord == [present |-> FALSE, sampled |-> FALSE, utils |-> 0]
NoWrite == [c \in {} |-> 0]
MetricCids == {"lc1", "be1"}
NoMetricRecord ==
    [present |-> FALSE, sampled |-> FALSE, utils |-> 0, metrics |-> <<>>,
     history |-> 0, thresh |-> <<>>, tdp_thresh |-> <<>>]
(* no metrics thread: main starts one only with collect_metrics *)
NoMetricsLoop ==
    /\ metric_cons = [c \in MetricCids |-> NoMetricRecord]
    /\ llc = [kind |-> "llc", quota_level |-> BUGET_LEV_MIN]
    /\ llc_controller = [cyc_cnt |-> 0, cyc_thresh |-> 1]
    /\ metric_thread = "none"
(* monitor is not timed *)
NoTimer == [pc |-> "none"]
(* the processes the agent starts are not followed *)
NoProcs == [pending |-> {}]
(* analyze.py is not run *)
NoBuilder == [pc |-> "none"]
(* the threads and main are not part of the specification *)
NoAgent ==
    /\ interrupt = FALSE
    /\ loop_pc = [t \in {"util", "metric"} |-> "none"]
    /\ main_pc = "none"
    /\ exit_code = -1
    /\ timer = NoTimer
    /\ procs = NoProcs
    /\ builder = NoBuilder
NoCall ==
    [op |-> "init", detected |-> FALSE, hold |-> FALSE, pre |-> <<>>,
     bes |-> {}, period |-> NoWrite, written |-> NoWrite]

(***************************************************************************)
(* Resource / CpuQuota (mresource.py, cpuquota.py)                         *)
(***************************************************************************)
is_min_level(res) == res.quota_level = BUGET_LEV_MIN

(* a full-level test against MAX instead of the FULL sentinel *)
is_full_level_Max(res) == res.quota_level = BUGET_LEV_MAX

is_full_level(res) == res.quota_level = BUGET_LEV_FULL

(* int(self.quota_step), quota_step = quota_max / BUGET_LEV_MAX *)
QuotaStepInt(quota_max) == IntDiv(quota_max, BUGET_LEV_MAX)

(* CpuQuota.update: the platform quota of a level *)
LevelQuota(level, quota_max) ==
    IF level = BUGET_LEV_FULL THEN CPU_QUOTA_DEFAULT
    ELSE IF level = BUGET_LEV_MIN THEN CPU_QUOTA_MIN
    ELSE level * QuotaStepInt(quota_max)

(* Resource.update, dispatched on the concrete class *)
ResUpdate(res) ==
    IF res.kind = "cpu"
    THEN [res EXCEPT !.cpu_quota = LevelQuota(res.quota_level, res.quota_max)]
    ELSE res

(* a set_level that recomputes the platform value but drops the level *)
set_level_KeepsLevel(res, level) == ResUpdate(res)

set_level(res, level) == ResUpdate([res EXCEPT !.quota_level = level])

(* an increase that rests at MAX instead of going over to FULL *)
increase_level_RestsAtMax(res) ==
    LET l1 == res.quota_level + 1
        l2 == IF l1 > BUGET_LEV_MAX THEN BUGET_LEV_FULL ELSE l1
    IN  ResUpdate([res EXCEPT !.quota_level = l2])

increase_level(res) ==
    LET l1 == res.quota_level + 1
        l2 == IF l1 = BUGET_LEV_MAX THEN BUGET_LEV_FULL ELSE l1
    IN  ResUpdate([res EXCEPT !.quota_level = l2])

(* a maximum with 20% of headroom above the utilization it is given *)
update_max_sys_util_Padded(res, lc_max_util) ==
    [res EXCEPT !.quota_max =
        ((lc_max_util + Percent(20)) * CPU_QUOTA_PERCENT) \div Percent(1)]

(* CpuQuota.update_max_sys_util: quota_max = lc_max_util * CPU_QUOTA_PERCENT; *)
(* the platform quota is not recomputed here                                  *)
update_max_sys_util(res, lc_max_util) ==
    [res EXCEPT !.quota_max = (lc_max_util * CPU_QUOTA_PERCENT) \div Percent(1)]

(* CpuQuota.__init__ *)
NewCpuQuota(sysMaxUtil) ==
    ResUpdate(update_max_sys_util(
        [kind |-> "cpu", quota_level |-> BUGET_LEV_MIN, cpu_quota |-> 0,
         quota_max |-> 0], Percent(sysMaxUtil)))

(* CpuQuota.__set_quota: the value written to cpu.cfs_quota_us *)
set_quota(quota, period) ==
    IF period # 0 /\ quota # CPU_QUOTA_DEFAULT /\ quota # CPU_QUOTA_MIN
    THEN IntDiv(quota * period, CPU_QUOTA_CORE)
    ELSE quota

(* CpuQuota.budgeting: what is written to each container of the list;      *)
(* period[c] is what the read of c's cfs period yields                     *)
budgeting(res, containers, period) ==
    LET newq == IntDiv(res.cpu_quota, Cardinality(containers))
    IN  [c \in containers |->
            IF is_min_level(res) \/ is_full_level(res)
            THEN set_quota(res.cpu_quota, period[c])
            ELSE set_quota(newq, period[c])]

(***************************************************************************)
(* NaiveController (naivectrl.py)                                          *)
(***************************************************************************)
(* an update whose step test is > instead of >= *)
NaiveUpdate_GtThresh(ctl, res, detected, hold) ==
    IF detected
    THEN IF is_min_level(res)
         THEN [ctl |-> [ctl EXCEPT !.cyc_cnt = 0], res |-> res,
               budgeted |-> FALSE]
         ELSE [ctl |-> [ctl EXCEPT !.cyc_cnt = 0],
               res |-> set_level(res, BUGET_LEV_MIN), budgeted |-> TRUE]
    ELSE IF hold \/ is_full_level(res)
         THEN [ctl |-> ctl, res |-> res, budgeted |-> FALSE]
         ELSE IF ctl.cyc_cnt + 1 > ctl.cyc_thresh
              THEN [ctl |-> [ctl EXCEPT !.cyc_cnt = 0],
                    res |-> increase_level(res), budgeted |-> TRUE]
              ELSE [ctl |-> [ctl EXCEPT !.cyc_cnt = ctl.cyc_cnt + 1],
                    res |-> res, budgeted |-> FALSE]

(* a controller that keeps its count when it throttles *)
NaiveUpdate_KeepsCount(ctl, res, detected, hold) ==
    IF detected
    THEN IF is_min_level(res)
         THEN [ctl |-> [ctl EXCEPT !.cyc_cnt = 0], res |-> res,
               budgeted |-> FALSE]
         ELSE [ctl |-> ctl,
               res |-> set_level(res, BUGET_LEV_MIN), budgeted |-> TRUE]
    ELSE IF hold \/ is_full_level(res)
         THEN [ctl |-> ctl, res |-> res, budgeted |-> FALSE]
         ELSE IF ctl.cyc_cnt + 1 >= ctl.cyc_thresh
              THEN [ctl |-> [ctl EXCEPT !.cyc_cnt = 0],
                    res |-> increase_level(res), budgeted |-> TRUE]
              ELSE [ctl |-> [ctl EXCEPT !.cyc_cnt = ctl.cyc_cnt + 1],
                    res |-> res, budgeted |-> FALSE]

(* a controller that budgets again on a detection at MIN *)
NaiveUpdate_BudgetsAtMin(ctl, res, detected, hold) ==
    IF detected
    THEN [ctl |-> [ctl EXCEPT !.cyc_cnt = 0],
          res |-> set_level(res, BUGET_LEV_MIN), budgeted |-> TRUE]
    ELSE IF hold \/ is_full_level(res)
         THEN [ctl |-> ctl, res |-> res, budgeted |-> FALSE]
         ELSE IF ctl.cyc_cnt + 1 >= ctl.cyc_thresh
              THEN [ctl |-> [ctl EXCEPT !.cyc_cnt = 0],
                    res |-> increase_level(res), budgeted |-> TRUE]
              ELSE [ctl |-> [ctl EXCEPT !.cyc_cnt = ctl.cyc_cnt + 1],
                    res |-> res, budgeted |-> FALSE]

(* NaiveController.update: the controller and resource after the call, and *)
(* whether budgeting(be_containers) was invoked                            *)
NaiveUpdate(ctl, res, detected, hold) ==
    IF detected
    THEN IF is_min_level(res)
         THEN [ctl |-> [ctl EXCEPT !.cyc_cnt = 0], res |-> res,
               budgeted |-> FALSE]
         ELSE [ctl |-> [ctl EXCEPT !.cyc_cnt = 0],
               res |-> set_level(res, BUGET_LEV_MIN), budgeted |-> TRUE]
    ELSE IF hold \/ is_full_level(res)
         THEN [ctl |-> ctl, res |-> res, budgeted |-> FALSE]
         ELSE IF ctl.cyc_cnt + 1 >= ctl.cyc_thresh
              THEN [ctl |-> [ctl EXCEPT !.cyc_cnt = 0],
                    res |-> increase_level(res), budgeted |-> TRUE]
              ELSE [ctl |-> [ctl EXCEPT !.cyc_cnt = ctl.cyc_cnt + 1],
                    res |-> res, budgeted |-> FALSE]

(* quiet calls in a row, counted from a resource at MIN with counter 0 and *)
(* no longer counted once the resource has gone through every level        *)
QuietNext(q, r, detected, hold) ==
    IF detected \/ hold
    THEN IF is_min_level(r.res) /\ r.ctl.cyc_cnt = 0 THEN 0 ELSE -1
    ELSE IF q < 0 THEN -1
         ELSE IF q >= BUGET_LEV_MAX * r.ctl.cyc_thresh THEN q ELSE q + 1

(***************************************************************************)
(* Floating-point values of the metrics and thresholds: a finite number,   *)
(* NaN, +inf or -inf, compared and added as IEEE 754 doubles are           *)
(***************************************************************************)
F(n) == [k |-> "fin", v |-> n]
NaN == [k |-> "nan", v |-> 0]
PInf == [k |-> "inf", v |-> 1]
NInf == [k |-> "inf", v |-> -1]

IsNaN(a) == a.k = "nan"

(* a > b *)
FGt(a, b) ==
    IF a.k = "nan" \/ b.k = "nan" THEN FALSE
    ELSE IF a.k = "inf" THEN a.v = 1 /\ ~(b.k = "inf" /\ b.v = 1)
    ELSE IF b.k = "inf" THEN b.v = -1
    ELSE a.v > b.v

(* a < b *)
FLt(a, b) == FGt(b, a)

(* a + b *)
FAdd(a, b) ==
    IF a.k = "nan" \/ b.k = "nan" THEN NaN
    ELSE IF a.k = "inf" /\ b.k = "inf" THEN IF a.v = b.v THEN a ELSE NaN
    ELSE IF a.k = "inf" THEN a
    ELSE IF b.k = "inf" THEN b
    ELSE F(a.v + b.v)

(***************************************************************************)
(* Contention detection on one container (container.py)                    *)
(***************************************************************************)
NoContainer ==
    [utils |-> 0, thresh |-> <<>>, tdp_thresh |-> <<>>,
     metrics |-> [CPI |-> F(0), L3MPKI |-> F(0), MBL |-> F(0), MBR |-> F(0),
                  NF |-> F(0)]]
NoDetection == [done |-> FALSE, bin |-> 0, contend |-> "None", tdp |-> "None"]

(* a detect_in_bin that looks at the bandwidth before the cache misses *)
detect_in_bin_BwFirst(metrics, thresh) ==
    IF FGt(metrics.CPI, thresh.cpi)
    THEN IF FLt(FAdd(metrics.MBL, metrics.MBR), thresh.mb) THEN "MEM_BW"
         ELSE IF FGt(metrics.L3MPKI, thresh.mpki) THEN "LLC"
         ELSE "UNKN"
    ELSE "None"

(* Container.__detect_in_bin *)
detect_in_bin(metrics, thresh) ==
    IF FGt(metrics.CPI, thresh.cpi)
    THEN IF FGt(metrics.L3MPKI, thresh.mpki) THEN "LLC"
         ELSE IF FLt(FAdd(metrics.MBL, metrics.MBR), thresh.mb) THEN "MEM_BW"
         ELSE "UNKN"
    ELSE "None"

(* the bin used when utils is below the start of bin i, i > 0 (0-based i   *)
(* of the source is i - 1 here): the first bin instead of the one before   *)
BinBelow_First(i) == 1

(* self.thresh[i - 1] *)
BinBelow(i) == i - 1

(* Container.contention_detect from bin i on: the bin handed to             *)
(* __detect_in_bin (0: none) and what it returns                            *)
RECURSIVE DetectFrom(_, _)
DetectFrom(con, i) ==
    IF i > Len(con.thresh)
    THEN [bin |-> 0, event |-> "None"]
    ELSE IF con.utils < con.thresh[i].util_start
    THEN IF i = 1
         THEN [bin |-> 0, event |-> "None"]
         ELSE [bin |-> BinBelow(i),
               event |-> detect_in_bin(con.metrics, con.thresh[BinBelow(i)])]
    ELSE IF /\ con.utils >= con.thresh[i].util_start
            /\ (con.utils < con.thresh[i].util_end \/ i = Len(con.thresh))
    THEN [bin |-> i, event |-> detect_in_bin(con.metrics, con.thresh[i])]
    ELSE DetectFrom(con, i + 1)

(* Container.contention_detect *)
contention_detect(con) ==
    IF con.thresh = <<>> THEN [bin |-> 0, event |-> "None"]
    ELSE DetectFrom(con, 1)

(* Container.tdp_contention_detect; tdp_thresh is <<>> or <<row>> *)
tdp_contention_detect(con) ==
    IF con.tdp_thresh = <<>> THEN "None"
    ELSE IF /\ con.utils >= con.tdp_thresh[1].util
            /\ FLt(con.metrics.NF, con.tdp_thresh[1].bar)
    THEN "TDP"
    ELSE "None"

(***************************************************************************)
(* The detection methods applied to a container record                     *)
(***************************************************************************)
(* the utilization ranges of a bin list as init_threshmap leaves it:       *)
(* sorted by util_start; bins may leave gaps and may overlap                *)
Ranges == {r \in (1..MaxUtil) \X (1..MaxUtil) : r[1] < r[2]}
Layouts ==
    {l \in UNION {[1..n -> Ranges] : n \in 0..MaxBins} :
        \A i \in 1..(Len(l) - 1) : l[i][1] <= l[i + 1][1]}

(* the thresholds of a bin: finite, NaN or infinite *)
BaseRow == [cpi |-> F(2), mpki |-> F(2), mb |-> F(2)]
ThreshRows ==
    {BaseRow, [BaseRow EXCEPT !.cpi = NaN], [BaseRow EXCEPT !.mpki = NaN],
     [BaseRow EXCEPT !.mb = NaN],
     [cpi |-> NInf, mpki |-> PInf, mb |-> PInf]}

Bin(range, row) ==
    [util_start |-> range[1], util_end |-> range[2], cpi |-> row.cpi,
     mpki |-> row.mpki, mb |-> row.mb]

FiniteMetrics ==
    [CPI : {F(1), F(3)}, L3MPKI : {F(1), F(3)}, MBL : {F(1), F(3)},
     MBR : {F(0)}, NF : {F(0)}]
AnyMetrics ==
    [CPI : {F(1), F(3), NaN}, L3MPKI : {F(1), F(3), NaN},
     MBL : {F(1), F(3), NaN, PInf}, MBR : {F(0), NInf}, NF : {F(0)}]
TdpRows == {<<>>, <<[util |-> 3, bar |-> F(2)]>>, <<[util |-> 3, bar |-> NaN]>>}

(* every bin layout, finite thresholds and metrics *)
InitLayouts ==
    \E l \in Layouts, u \in 0..MaxUtil, cpi \in {F(1), F(3)} :
        lc = [utils |-> u, tdp_thresh |-> <<>>,
              metrics |-> [CPI |-> cpi, L3MPKI |-> F(3), MBL |-> F(1),
                           MBR |-> F(0), NF |-> F(0)],
              thresh |-> [i \in 1..Len(l) |-> Bin(l[i], BaseRow)]]

(* one or two bins, every kind of threshold and of live value *)
InitValues ==
    \E l \in {<<>>, <<<<1, 3>>>>, <<<<1, 2>>, <<3, 4>>>>},
       rows \in [1..2 -> ThreshRows], u \in {2, 4}, m \in AnyMetrics :
        lc = [utils |-> u, tdp_thresh |-> <<>>, metrics |-> m,
              thresh |-> [i \in 1..Len(l) |-> Bin(l[i], rows[i])]]

(* a thermal row or none, with one bin and finite metrics *)
InitThermal ==
    \E t \in TdpRows, nf \in {F(1), F(3)}, u \in 0..MaxUtil,
       m \in FiniteMetrics :
        lc = [utils |-> u, tdp_thresh |-> t,
              metrics |-> [m EXCEPT !.NF = nf],
              thresh |-> <<Bin(<<1, 4>>, BaseRow)>>]

InitDetect ==
    /\ InitLayouts \/ InitValues \/ InitThermal
    /\ det = NoDetection
    /\ NoMetricsLoop
    /\ NoAgent
    /\ cpuq = NewCpuQuota(0)
    /\ quota_controller = [cyc_cnt |-> 0, cyc_thresh |-> 1]
    /\ call = NoCall
    /\ quiet = -1
    /\ args = NoArgs
    /\ sysmax_util = 0
    /\ util_cons = [c \in UtilCids |-> NoRecord]

(* con.contention_detect() and con.tdp_contention_detect() on the record *)
Detect ==
    /\ ~det.done
    /\ LET r == contention_detect(lc)
       IN  det' = [done |-> TRUE, bin |-> r.bin, contend |-> r.event,
                   tdp |-> tdp_contention_detect(lc)]
    /\ UNCHANGED <<lc, ctrlVars, utilVars, metricVars, agentVars, builderVars>>

NextDetect == Detect

SpecDetect == InitDetect /\ [][NextDetect]_vars

(***************************************************************************)
(* Container records of the utilization loop (container.py) and            *)
(* mon_util_cycle (eris.py)                                                *)
(***************************************************************************)
(* a record as Container.__init__ leaves it. sampled: cpu_usage # 0, a raw  *)
(* CPU-time sample is held                                                  *)
NewRecord == [present |-> TRUE, sampled |-> FALSE, utils |-> 0]

(* Container.update_cpu_usage. read = -1: the cgroup read gave no integer; *)
(* otherwise the utilization the two samples come to                       *)
update_cpu_usage(rec, read) ==
    IF read = -1 THEN rec
    ELSE [rec EXCEPT !.utils = IF rec.sampled THEN read ELSE rec.utils,
                     !.sampled = TRUE]

(* a margin test that already fires when the margin is just reached *)
detect_margin_exceed_AtMargin(res, margin_tenths, lc_utils, be_utils) ==
    LET margin == (CPU_QUOTA_CORE * margin_tenths) \div 10
        used == ((lc_utils + be_utils) * CPU_QUOTA_PERCENT) \div Percent(1)
    IN  [exceed |-> lc_utils = 0 \/ used + margin >= res.quota_max,
         hold |-> BUGET_LEV_MAX * (used + margin) + res.quota_max
                    >= BUGET_LEV_MAX * res.quota_max]

(* CpuQuota.detect_margin_exceed, with both sides of the hold test          *)
(* multiplied by BUGET_LEV_MAX (quota_step = quota_max / BUGET_LEV_MAX)     *)
detect_margin_exceed(res, margin_tenths, lc_utils, be_utils) ==
    LET margin == (CPU_QUOTA_CORE * margin_tenths) \div 10
        used == ((lc_utils + be_utils) * CPU_QUOTA_PERCENT) \div Percent(1)
    IN  [exceed |-> lc_utils = 0 \/ used + margin > res.quota_max,
         hold |-> BUGET_LEV_MAX * (used + margin) + res.quota_max
                    >= BUGET_LEV_MAX * res.quota_max]

(* the sum of the utils of the records of a set of containers *)
RECURSIVE SumUtils(_, _)
SumUtils(cons, S) ==
    IF S = {} THEN 0
    ELSE LET c == CHOOSE x \in S : TRUE
         IN  cons[c].utils + SumUtils(cons, S \ {c})

InitUtil ==
    /\ \E m \in SysMaxInit :
          /\ sysmax_util = m
          /\ cpuq = NewCpuQuota(m)
    /\ \E t \in QuotaCycles :
          quota_controller = [cyc_cnt |-> 0, cyc_thresh |-> t]
    /\ \E h \in BOOLEAN, m \in MarginTenths :
          args = [NoArgs EXCEPT !.control = TRUE, !.enable_hold = h,
                                !.margin_tenths = m]
    /\ util_cons = [c \in UtilCids |-> NoRecord]
    /\ call = NoCall
    /\ quiet = -1
    /\ lc = NoContainer
    /\ det = NoDetection
    /\ NoMetricsLoop
    /\ NoAgent

(* The records after the eviction, discovery and sampling steps of a cycle. *)
(* listed: the containers docker lists; read[c]: what update_cpu_usage      *)
(* finds for c                                                              *)
CycleRecords(cons, listed, read) ==
    [c \in DOMAIN cons |->
        IF c \in listed
        THEN update_cpu_usage(IF cons[c].present THEN cons[c] ELSE NewRecord,
                              read[c])
        ELSE NoRecord]

(* mon_util_cycle. period[c]: c's cfs period when it is read. The values a  *)
(* cycle computes once are bound once (\E over a one-element set).          *)
MonUtilCycle(listed, read, period) ==
    \E cons \in {CycleRecords(util_cons, listed, read)} :
    \E lc_utils \in {SumUtils(cons, listed \cap lc_set)} :
    \E be_utils \in {SumUtils(cons, listed \cap be_set)} :
    \E raised \in {lc_utils > Percent(sysmax_util)} :
    \E res1 \in {IF raised /\ args.control
                 THEN update_max_sys_util(cpuq, lc_utils) ELSE cpuq} :
    \E m \in {detect_margin_exceed(res1, args.margin_tenths,
                                   lc_utils, be_utils)} :
    \E hold \in {IF args.enable_hold THEN m.hold ELSE FALSE} :
    \E bes \in {listed \cap be_set} :
    \E ctl \in {bes # {} /\ args.control} :
    \E r \in {IF ctl
              THEN NaiveUpdate(quota_controller, res1, m.exceed, hold)
              ELSE [ctl |-> quota_controller, res |-> res1,
                    budgeted |-> FALSE]} :
    \E enrol \in {IF args.control
                  THEN [c \in {x \in bes : ~util_cons[x].present} |->
                           budgeting(cpuq, {c}, period)[c]]
                  ELSE NoWrite} :
    \E budget \in {IF r.budgeted THEN budgeting(r.res, bes, period)
                   ELSE NoWrite} :
        /\ util_cons' = cons
        /\ sysmax_util' = IF raised THEN lc_utils \div Percent(1)
                          ELSE sysmax_util
        /\ cpuq' = r.res
        /\ quota_controller' = r.ctl
        /\ call' = [op |-> IF ctl THEN "cycle+update" ELSE "cycle",
                    detected |-> ctl /\ m.exceed, hold |-> ctl /\ hold,
                    pre |-> <<>>, bes |-> bes,
                    had |-> {c \in DOMAIN util_cons : util_cons[c].present},
                    listed |-> listed, budgeted |-> r.budgeted,
                    enrolled |-> DOMAIN enrol,
                    period |-> period,
                    written |-> [c \in DOMAIN enrol \cup DOMAIN budget |->
                                    IF c \in DOMAIN budget THEN budget[c]
                                    ELSE enrol[c]]]
        /\ UNCHANGED <<args, quiet, detVars, metricVars>>

NextUtil ==
    \E listed \in SUBSET UtilCids :
        \E read \in [listed -> {-1} \cup LcUtils \cup BeUtils],
           period \in [listed \cap be_set -> {CPU_QUOTA_CORE}] :
            /\ \A c \in listed \cap lc_set : read[c] \in {-1} \cup LcUtils
            /\ \A c \in listed \cap be_set : read[c] \in {-1} \cup BeUtils
            /\ MonUtilCycle(listed, read, period)
            /\ UNCHANGED <<agentVars, builderVars>>

SpecUtil == InitUtil /\ [][NextUtil]_vars

(***************************************************************************)
(* LlcOccup (llcoccup.py), mon_metric_cycle and set_metrics (eris.py)      *)
(***************************************************************************)
metric_interval == 20
(* LlcOccup.LLC_BMP: '0x1', '0x3', ... '0xfffff' *)
LLC_BMP ==
    <<1, 3, 7, 15, 31, 63, 127, 255, 511, 1023, 2047, 4095, 8191, 16383,
      32767, 65535, 131071, 262143, 524287, 1048575>>
LLC_BMP_LEN == Len(LLC_BMP)
historyDepth == 5

(* what class Container and enum Contention define *)
ContainerMethods ==
    {"updateMetricsHistory", "getHistoryDeltaByType", "getLLCOccupanyDelta",
     "getFreqDelta", "getLatestMBT", "get_metrics", "update_pids",
     "update_cpu_usage", "tdp_contention_detect", "contention_detect"}
ContentionMembers == {"UNKN", "CPU_CYC", "LLC", "MEM_BW", "TDP"}

(* a budgeting that installs the mask of the next level *)
LlcBudgeting_NextMask(res, containers) ==
    [c \in containers |->
        IF is_full_level(res) \/ res.quota_level + 1 >= LLC_BMP_LEN
        THEN LLC_BMP[LLC_BMP_LEN]
        ELSE LLC_BMP[res.quota_level + 2]]

(* LlcOccup.budgeting: the containers whose PIDs are attached to class of   *)
(* service 1, and the mask installed for that class (LLC_BMP is indexed     *)
(* from 0 in the source, from 1 here)                                       *)
LlcBudgeting(res, containers) ==
    [c \in containers |->
        IF is_full_level(res) \/ res.quota_level >= LLC_BMP_LEN
        THEN LLC_BMP[LLC_BMP_LEN]
        ELSE LLC_BMP[res.quota_level + 1]]

(* ctx.thresh_map.get(key, []) and ctx.tdp_thresh_map.get(key, []): one bin *)
(* and one thermal row for the LC workload, loaded only under detect        *)
ThreshOf(key) ==
    IF args.detect /\ key \in lc_set THEN <<Bin(<<1, 5>>, BaseRow)>> ELSE <<>>
TdpThreshOf(key) ==
    IF args.detect /\ key \in lc_set THEN <<[util |-> 3, bar |-> F(2)]>>
    ELSE <<>>

(* Container.__init__ *)
NewContainer(key) ==
    [present |-> TRUE, sampled |-> FALSE, utils |-> 0, metrics |-> <<>>,
     history |-> 0, thresh |-> ThreshOf(key), tdp_thresh |-> TdpThreshOf(key)]

(* the counters pgos reports for one cgroup; CYC and 1000 * L3MISS are      *)
(* multiples of INST, so that the quotients below are the exact ones        *)
Snapshots ==
    [CYC : {600000}, INST : {200000}, L3MISS : {200, 600}, L3OCC : {1},
     MBL : {1}, MBR : {0}]
        \cup [CYC : {2400000}, INST : {0, 200000}, L3MISS : {200},
              L3OCC : {1}, MBL : {3}, MBR : {0}]

(* set_metrics, lines 69-118: the counters parsed into the record's metrics *)
(* and the derived CPI, L3MPKI and NF; raw = <<>>: no line for the record   *)
DerivedMetrics(old, raw, utils) ==
    LET m == IF raw # <<>> THEN raw ELSE old
    IN  IF m = <<>> THEN <<>>
        ELSE [CYC |-> m.CYC, INST |-> m.INST, L3MISS |-> m.L3MISS,
              L3OCC |-> m.L3OCC,
              MBL |-> IF raw # <<>> THEN F(raw.MBL) ELSE old.MBL,
              MBR |-> IF raw # <<>> THEN F(raw.MBR) ELSE old.MBR,
              CPI |-> IF m.INST = 0 THEN F(0) ELSE F(m.CYC \div m.INST),
              L3MPKI |-> IF m.INST = 0 THEN F(0)
                         ELSE F((m.L3MISS * 1000) \div m.INST),
              NF |-> IF utils = 0 THEN F(0)
                     ELSE F(((m.CYC \div metric_interval) \div 10000)
                                \div utils)]

(* deque([], historyDepth + 1).append *)
HistoryAppend(n) == IF n < historyDepth + 1 THEN n + 1 ELSE n

InitMetrics ==
    /\ \E d, c, n \in BOOLEAN :
          /\ args = [NoArgs EXCEPT !.detect = d, !.control = c,
                                   !.disable_cat = n]
          /\ llc = [kind |-> "llc",
                    quota_level |-> IF c /\ n THEN BUGET_LEV_FULL
                                    ELSE BUGET_LEV_MIN]
    /\ \E t \in LlcCycles :
          llc_controller = [cyc_cnt |-> 0, cyc_thresh |-> t]
    /\ metric_cons = [c \in MetricCids |-> NoMetricRecord]
    /\ metric_thread = "running"
    /\ NoAgent
    /\ cpuq = NewCpuQuota(0)
    /\ quota_controller = [cyc_cnt |-> 0, cyc_thresh |-> 1]
    /\ call = NoCall
    /\ quiet = -1
    /\ sysmax_util = 0
    /\ util_cons = [c \in UtilCids |-> NoRecord]
    /\ lc = NoContainer
    /\ det = NoDetection


(* a discovery that leaves the records of vanished containers in the map *)
MetricRecords_KeepsVanished(cons, listed, first) ==
    [c \in DOMAIN cons |->
        IF cons[c].present THEN cons[c]
        ELSE IF c \in listed THEN update_cpu_usage(NewContainer(c), first[c])
        ELSE NoMetricRecord]

(* mon_metric_cycle, lines 297-321: eviction, discovery and the first CPU   *)
(* sample of a new record. first[c]: what that read finds                  *)
MetricRecords(cons, listed, first) ==
    [c \in DOMAIN cons |->
        IF c \in listed
        THEN IF cons[c].present THEN cons[c]
             ELSE update_cpu_usage(NewContainer(c), first[c])
        ELSE NoMetricRecord]

(* set_metrics, lines 101-118, on an LC record: the CPU sample and the      *)
(* metrics                                                                  *)
SampledRecord(rec, read, raw) ==
    LET r == update_cpu_usage(rec, read)
    IN  [r EXCEPT !.metrics = DerivedMetrics(rec.metrics, raw, r.utils)]

(* what pgos prints for a cgroup when its value field is not a number *)
BadLine == [bad |-> TRUE]

(* set_metrics, lines 69-88: int(val) / float(val) raises ValueError on a   *)
(* line whose value is not a number                                         *)
ParseRaises(data) == \E c \in DOMAIN data : data[c] = BadLine

(* set_metrics, lines 119-120 *)
HistoryRaises == "update_metrics_history" \notin ContainerMethods

(* set_metrics, lines 144-161: the kinds of the contended record's map that *)
(* get an attribution                                                       *)
AttributedKinds(d) == {d.contend, d.tdp} \cap {"LLC", "MEM_BW", "TDP"}

(* set_metrics, lines 155-181, for one contended record: the delta lookups  *)
(* get_llcoccupany_delta and Contention.MB on the other records             *)
SuspectRaises(d, others) ==
    /\ others # {}
    /\ \/ d.contend = "LLC" /\ "get_llcoccupany_delta" \notin ContainerMethods
       \/ (d.contend = "MEM_BW" \/ d.tdp = "TDP")
              /\ "MB" \notin ContentionMembers

(* a contention map that also has the CPU_CYC key *)
ContentionKeys_WithCpu(d) == {"LLC", "MEM_BW", "UNKN", "TDP", "CPU_CYC"}

(* set_metrics, lines 90-91 and 145-147: the keys of the cycle's contention *)
(* map                                                                      *)
ContentionKeys(d) ==
    {"LLC", "MEM_BW", "UNKN"} \cup (IF d.tdp = "TDP" THEN {"TDP"} ELSE {})

(* main, lines 543-554: the keys of ctx.controllers *)
Controllers ==
    IF ~args.control THEN {}
    ELSE IF args.disable_cat THEN {"CPU_CYC"}
    ELSE {"CPU_CYC", "LLC"}

(* mon_metric_cycle with the set_metrics it calls. listed: the containers   *)
(* docker lists; first, read: the CPU samples; data[c]: the counters pgos   *)
(* reports for LC c, <<>> for none. One LC workload, so the order of        *)
(* ctx.metric_cons plays no part.                                           *)
MonMetricCycle(listed, first, read, data) ==
    \E cons0 \in {MetricRecords(metric_cons, listed, first)} :
    \E lcs \in {listed \cap lc_set} :
    \E bes \in {listed \cap be_set} :
    \E new_bes \in {IF args.control /\ ~args.disable_cat
                    THEN {c \in bes : ~metric_cons[c].present} ELSE {}} :
    \E raise0 \in {ParseRaises(data)} :
    \E cons1 \in {[c \in DOMAIN cons0 |->
                      IF c \in lcs /\ ~raise0
                      THEN SampledRecord(cons0[c], read[c], data[c])
                      ELSE cons0[c]]} :
    \E full \in {{c \in lcs : ~raise0 /\ cons1[c].metrics # <<>>}} :
    \E raise1 \in {args.detect /\ full # {} /\ HistoryRaises} :
    \E cons2 \in {[c \in DOMAIN cons1 |->
                      IF c \in full /\ args.detect /\ ~HistoryRaises
                      THEN [cons1[c] EXCEPT
                              !.history = HistoryAppend(cons1[c].history)]
                      ELSE cons1[c]]} :
    \E d \in {IF args.detect /\ ~raise1 /\ full # {}
              THEN LET con == cons2[CHOOSE c \in full : TRUE]
                       r == contention_detect(con)
                   IN  [done |-> TRUE, bin |-> r.bin, contend |-> r.event,
                        tdp |-> tdp_contention_detect(con)]
              ELSE NoDetection} :
    \E raise2 \in {d.done /\ SuspectRaises(d, listed \ full)} :
    \E raised \in {raise0 \/ raise1 \/ raise2} :
    \E upd \in {IF lcs # {} /\ ~raised /\ bes # {} /\ args.control
                THEN ContentionKeys(d) \cap Controllers ELSE {}} :
    \E ctl \in {"LLC" \in upd} :
    \E r \in {IF ctl
              THEN NaiveUpdate(llc_controller, llc, d.contend = "LLC", FALSE)
              ELSE [ctl |-> llc_controller, res |-> llc,
                    budgeted |-> FALSE]} :
    \E rc \in {IF "CPU_CYC" \in upd
               THEN NaiveUpdate(quota_controller, cpuq, FALSE, FALSE)
               ELSE [ctl |-> quota_controller, res |-> cpuq,
                     budgeted |-> FALSE]} :
    \E budget \in {IF r.budgeted THEN LlcBudgeting(r.res, bes)
                   ELSE LlcBudgeting(llc, new_bes)} :
        /\ metric_thread = "running"
        /\ metric_cons' = cons2
        /\ det' = d
        /\ llc' = r.res
        /\ llc_controller' = r.ctl
        /\ cpuq' = rc.res
        /\ quota_controller' = rc.ctl
        /\ metric_thread' = IF raised THEN "raised" ELSE "running"
        /\ call' = [op |-> "metrics", detected |-> ctl /\ d.contend = "LLC",
                    hold |-> FALSE, pre |-> <<>>, bes |-> bes,
                    had |-> {c \in DOMAIN metric_cons :
                                metric_cons[c].present},
                    listed |-> listed,
                    failed |-> {c \in lcs : data[c] \in {<<>>, BadLine}},
                    budgeted |-> r.budgeted, enrolled |-> new_bes,
                    parsed |-> lcs # {} /\ ~raise0, detects |-> d.done,
                    period |-> NoWrite, updates |-> IF ctl THEN 1 ELSE 0,
                    updated |-> upd,
                    suspects |-> IF d.done /\ ~raise2
                                 THEN [k \in AttributedKinds(d) |-> "unknown"]
                                 ELSE NoWrite,
                    written |-> [c \in DOMAIN budget \cup new_bes |->
                                    IF c \in DOMAIN budget THEN budget[c]
                                    ELSE LlcBudgeting(llc, new_bes)[c]]]
        /\ UNCHANGED <<quiet, utilVars, lc>>

NextMetrics ==
    \E listed \in SUBSET MetricCids :
        \E first \in [{c \in listed : ~metric_cons[c].present} -> {-1, 0}],
           read \in [listed \cap lc_set -> {-1, 2, 4}],
           data \in [listed \cap lc_set -> {<<>>, BadLine} \cup Snapshots] :
            /\ MonMetricCycle(listed, first, read, data)
            /\ UNCHANGED <<agentVars, builderVars>>

SpecMetrics == InitMetrics /\ [][NextMetrics]_vars

(***************************************************************************)
(* The agent: main and the two monitor threads (eris.py, monitor and main) *)
(***************************************************************************)
Threads == {"util", "metric"}
Ended(t) == loop_pc[t] \in {"returned", "raised"}

(* what docker lists in a cycle of the agent, and what the reads give *)
AgentListings == {{}, {"lc1", "be1"}}
AgentRead(listed) == [c \in listed |-> IF c \in lc_set THEN Percent(5) ELSE 0]
AgentData == {<<>>} \cup {m \in Snapshots : m.CYC = 600000 /\ m.L3MISS = 600}

(* main, lines 528-557: the context both loops start from, with --control  *)
(* (control) or without                                                    *)
InitLoopsFor(control) ==
    /\ \E d \in BOOLEAN :
          args = [NoArgs EXCEPT !.control = control, !.detect = d]
    /\ sysmax_util = 20
    /\ cpuq = NewCpuQuota(20)
    /\ quota_controller = [cyc_cnt |-> 0, cyc_thresh |-> 1]
    /\ llc = [kind |-> "llc", quota_level |-> BUGET_LEV_MIN]
    /\ llc_controller = [cyc_cnt |-> 0, cyc_thresh |-> 1]
    /\ util_cons = [c \in UtilCids |-> NoRecord]
    /\ metric_cons = [c \in MetricCids |-> NoMetricRecord]
    /\ metric_thread = "running"
    /\ call = NoCall
    /\ quiet = -1
    /\ lc = NoContainer
    /\ det = NoDetection

InitLoops == InitLoopsFor(TRUE)

(* main, lines 559-575: both threads are started and main waits *)
AgentStart ==
    /\ interrupt = FALSE
    /\ loop_pc = [t \in Threads |-> "top"]
    /\ main_pc = "join_util"
    /\ exit_code = -1
    /\ timer = NoTimer
    /\ procs = NoProcs
    /\ builder = NoBuilder

InitAgent == InitLoops /\ AgentStart

(* a loop that does not look at the flag *)
LoopTop_IgnoresFlag(t) ==
    /\ loop_pc[t] = "top"
    /\ loop_pc' = [loop_pc EXCEPT ![t] = "work"]
    /\ UNCHANGED <<ctrlVars, utilVars, detVars, metricVars, interrupt,
                   main_pc, exit_code, timer, procs, builder>>

(* monitor, line 343: while not ctx.interrupt *)
LoopTop(t) ==
    /\ loop_pc[t] = "top"
    /\ loop_pc' = [loop_pc EXCEPT ![t] = IF interrupt THEN "returned"
                                         ELSE "work"]
    /\ metric_thread' = IF t = "metric" /\ interrupt THEN "returned"
                        ELSE metric_thread
    /\ UNCHANGED <<ctrlVars, utilVars, detVars, metric_cons, llc,
                   llc_controller, interrupt, main_pc, exit_code, timer, procs,
                   builder>>

(* monitor, line 344, in the utilization thread: func(ctx) *)
UtilWork ==
    /\ loop_pc["util"] = "work"
    /\ \E listed \in AgentListings :
          MonUtilCycle(listed, AgentRead(listed),
                       [c \in listed \cap be_set |-> CPU_QUOTA_CORE])
    /\ loop_pc' = [loop_pc EXCEPT !["util"] = "sleep"]
    /\ UNCHANGED <<interrupt, main_pc, exit_code, timer, procs, builder>>

(* monitor, line 344, in the metrics thread: func(ctx) *)
MetricWork ==
    /\ loop_pc["metric"] = "work"
    /\ \E listed \in AgentListings, d \in AgentData :
          MonMetricCycle(listed,
                         [c \in {x \in listed : ~metric_cons[x].present}
                             |-> 0],
                         [c \in listed \cap lc_set |-> 2],
                         [c \in listed \cap lc_set |-> d])
    /\ loop_pc' = [loop_pc EXCEPT
                      !["metric"] = IF metric_thread' = "raised"
                                    THEN "raised" ELSE "sleep"]
    /\ UNCHANGED <<interrupt, main_pc, exit_code, timer, procs, builder>>

(* monitor, line 344: the work body fails on its first call, the docker    *)
(* listing (list_docker_containers raises when the daemon cannot be        *)
(* reached); the exception leaves monitor and ends the thread              *)
WorkRaises(t) ==
    /\ loop_pc[t] = "work"
    /\ loop_pc' = [loop_pc EXCEPT ![t] = "raised"]
    /\ metric_thread' = IF t = "metric" THEN "raised" ELSE metric_thread
    /\ UNCHANGED <<ctrlVars, utilVars, detVars, metric_cons, llc,
                   llc_controller, interrupt, main_pc, exit_code, timer, procs,
                   builder>>

(* monitor, lines 345-350: the sleep until the next cycle is over *)
Wake(t) ==
    /\ loop_pc[t] = "sleep"
    /\ loop_pc' = [loop_pc EXCEPT ![t] = "top"]
    /\ UNCHANGED <<ctrlVars, utilVars, detVars, metricVars, interrupt,
                   main_pc, exit_code, timer, procs, builder>>

(* main, lines 578-580: KeyboardInterrupt while main waits in a join *)
KeyboardInterrupt ==
    /\ main_pc \in {"join_util", "join_metric"}
    /\ interrupt' = TRUE
    /\ main_pc' = "sys_exit"
    /\ UNCHANGED <<ctrlVars, utilVars, detVars, metricVars, loop_pc,
                   exit_code, timer, procs, builder>>

(* main, line 575: util_thread.join() returns *)
JoinUtil ==
    /\ main_pc = "join_util"
    /\ Ended("util")
    /\ main_pc' = "join_metric"
    /\ UNCHANGED <<ctrlVars, utilVars, detVars, metricVars, interrupt,
                   loop_pc, exit_code, timer, procs, builder>>

(* main, lines 576-577: metric_thread.join() returns *)
JoinMetric ==
    /\ main_pc = "join_metric"
    /\ Ended("metric")
    /\ main_pc' = "sys_exit"
    /\ UNCHANGED <<ctrlVars, utilVars, detVars, metricVars, interrupt,
                   loop_pc, exit_code, timer, procs, builder>>

(* main, line 583: sys.exit(0); the interpreter exits once the threads,    *)
(* which are not daemon threads, have ended                                *)
SysExit ==
    /\ main_pc = "sys_exit"
    /\ \A t \in Threads : Ended(t)
    /\ main_pc' = "exited"
    /\ exit_code' = 0
    /\ UNCHANGED <<ctrlVars, utilVars, detVars, metricVars, interrupt,
                   loop_pc, timer, procs, builder>>

NextAgent ==
    \/ \E t \in Threads : LoopTop(t)
    \/ UtilWork
    \/ MetricWork
    \/ \E t \in Threads : WorkRaises(t)
    \/ \E t \in Threads : Wake(t)
    \/ KeyboardInterrupt
    \/ JoinUtil
    \/ JoinMetric
    \/ SysExit

SpecAgent == InitAgent /\ [][NextAgent]_vars

(* The scheduling of the agent: a thread that can take a step takes it   *)
(* in the end (the threads are scheduled by the operating system, a sleep  *)
(* ends, a work body returns or raises), and the interpreter exits once    *)
(* sys.exit(0) has been called and the threads have ended.                 *)
FairAgent ==
    /\ \A t \in Threads : WF_vars(LoopTop(t)) /\ WF_vars(Wake(t))
    /\ WF_vars(UtilWork \/ WorkRaises("util"))
    /\ WF_vars(MetricWork \/ WorkRaises("metric"))
    /\ WF_vars(SysExit)

(* the agent started without --control: it monitors only *)
InitShutdown == InitLoopsFor(FALSE) /\ AgentStart

SpecShutdown == InitShutdown /\ [][NextAgent]_vars /\ FairAgent

(***************************************************************************)
(* The history of a container record (container.py, lines 44-94), driven   *)
(* directly: lc.metrics is the record's current metrics, lc.metricsHistory *)
(* the deque, oldest first, lc.maxlen the deque's maxlen, lc.arrived every *)
(* snapshot ever appended. The samples are multiples of 60, so that the    *)
(* mean of up to five of them is exact.                                    *)
(***************************************************************************)
MaxAppends == 7
Depths == {2, historyDepth}
HistSnapshots ==
    {[L3OCC |-> 0, NF |-> 60, MBL |-> 1, MBR |-> 0],
     [L3OCC |-> 60, NF |-> 120, MBL |-> 3, MBR |-> 2],
     [L3OCC |-> 120, NF |-> 0, MBL |-> 0, MBR |-> 0]}

(* a deque that drops the newest element when it is full *)
DequeAppend_DropsNewest(q, x, maxlen) ==
    IF Len(q) < maxlen THEN Append(q, x) ELSE q

(* deque([], maxlen).append(x) *)
DequeAppend(q, x, maxlen) ==
    IF Len(q) < maxlen THEN Append(q, x) ELSE Append(Tail(q), x)

RECURSIVE SumColumn(_, _, _)
(* getHistoryDeltaByType, lines 79-80: the sum of the column over the      *)
(* first n snapshots                                                       *)
SumColumn(q, columnname, n) ==
    IF n = 0 THEN 0 ELSE SumColumn(q, columnname, n - 1) + q[n][columnname]

(* a delta against the mean of the whole history *)
getHistoryDeltaByType_MeanOfAll(q, columnname) ==
    LET length == Len(q)
    IN  IF length = 0 THEN 0
        ELSE IF length = 1 THEN q[length][columnname]
        ELSE q[length][columnname]
                - SumColumn(q, columnname, length) \div length

(* Container.getHistoryDeltaByType *)
getHistoryDeltaByType(q, columnname) ==
    LET length == Len(q)
    IN  IF length = 0 THEN 0
        ELSE IF length = 1 THEN q[length][columnname]
        ELSE q[length][columnname]
                - SumColumn(q, columnname, length - 1) \div (length - 1)

NoDeltas == [done |-> FALSE]

InitHistory ==
    /\ \E d \in Depths, m \in HistSnapshots :
          lc = [metrics |-> m, metricsHistory |-> <<>>, maxlen |-> d + 1,
                depth |-> d, arrived |-> <<>>]
    /\ det = NoDeltas
    /\ NoMetricsLoop
    /\ NoAgent
    /\ cpuq = NewCpuQuota(0)
    /\ quota_controller = [cyc_cnt |-> 0, cyc_thresh |-> 1]
    /\ call = NoCall
    /\ quiet = -1
    /\ args = NoArgs
    /\ sysmax_util = 0
    /\ util_cons = [c \in UtilCids |-> NoRecord]

(* Container.updateMetricsHistory *)
updateMetricsHistory ==
    /\ Len(lc.arrived) < MaxAppends
    /\ lc' = [lc EXCEPT
                 !.metricsHistory = DequeAppend(@, lc.metrics, lc.maxlen),
                 !.arrived = Append(@, lc.metrics)]
    /\ det' = NoDeltas
    /\ UNCHANGED <<ctrlVars, utilVars, metricVars, agentVars, builderVars>>

(* set_metrics, lines 78-88 and 104-118: the record's current metrics are  *)
(* overwritten in place                                                    *)
SetMetrics(m) ==
    /\ m # lc.metrics
    /\ lc' = [lc EXCEPT !.metrics = m]
    /\ det' = NoDeltas
    /\ UNCHANGED <<ctrlVars, utilVars, metricVars, agentVars, builderVars>>

(* getLLCOccupanyDelta, getFreqDelta and getLatestMBT on the record *)
GetDeltas ==
    /\ ~det.done
    /\ det' = [done |-> TRUE,
               llc |-> getHistoryDeltaByType(lc.metricsHistory, "L3OCC"),
               freq |-> getHistoryDeltaByType(lc.metricsHistory, "NF"),
               mbt |-> lc.metrics.MBL + lc.metrics.MBR]
    /\ UNCHANGED <<lc, ctrlVars, utilVars, metricVars, agentVars, builderVars>>

NextHistory ==
    \/ updateMetricsHistory
    \/ \E m \in HistSnapshots : SetMetrics(m)
    \/ GetDeltas

SpecHistory == InitHistory /\ [][NextHistory]_vars

(***************************************************************************)
(* The processes the cycles start with subprocess.Popen and never wait     *)
(* for: the cgroup quota writes, the write of the system-max file and the  *)
(* two pqos commands of an LLC budgeting. The operating system runs them   *)
(* in any order. procs.pending: the processes started and not yet done,    *)
(* each with its target, the value it writes, its number in the order of   *)
(* starting and the loop that started it; procs.effect[t]: what target t   *)
(* holds; procs.issued[t]: what the process started last for t writes.     *)
(***************************************************************************)
MaxProcs == 4
BeOrder == <<"be1", "be2">>
Targets ==
    {"cpu.cfs_quota_us be1", "cpu.cfs_quota_us be2", "lcmax.txt",
     "pqos -a pid:1", "pqos -e llc:1"}
NoValue == -2

(* the processes of seq are started, in the order of seq, by loop *)
StartAll(ps, loop, seq) ==
    [pending |-> ps.pending \cup
                    {[target |-> seq[i].target, value |-> seq[i].value,
                      n |-> ps.n + i, loop |-> loop] : i \in 1..Len(seq)},
     n |-> ps.n + Len(seq),
     issued |-> [t \in Targets |->
                    LET is == {i \in 1..Len(seq) : seq[i].target = t}
                    IN  IF is = {} THEN ps.issued[t]
                        ELSE seq[CHOOSE i \in is : \A j \in is : j <= i].value],
     effect |-> ps.effect,
     carried |-> ps.carried \/ \E w \in ps.pending : w.loop = loop,
     inorder |-> ps.inorder]

(* CpuQuota.__set_quota, lines 79-82, for each container of bes in turn *)
QuotaWrites(bes, value) ==
    LET order == SelectSeq(BeOrder, LAMBDA c : c \in bes)
    IN  [i \in 1..Len(order) |->
            [target |-> IF order[i] = "be1" THEN "cpu.cfs_quota_us be1"
                        ELSE "cpu.cfs_quota_us be2",
             value |-> value[order[i]]]]

InitProc ==
    /\ InitLoops
    /\ interrupt = FALSE
    /\ loop_pc = [t \in Threads |-> "none"]
    /\ main_pc = "none"
    /\ exit_code = -1
    /\ timer = NoTimer
    /\ builder = NoBuilder
    /\ procs = [pending |-> {}, n |-> 0,
                issued |-> [t \in Targets |-> NoValue],
                effect |-> [t \in Targets |-> NoValue],
                carried |-> FALSE, inorder |-> TRUE]

(* mon_util_cycle with the processes it starts: the quota write of each    *)
(* new BE container (line 252), the write of the system-max file           *)
(* (update_sysmax, line 455), the quota writes of the controller's         *)
(* budgeting (line 285)                                                    *)
ProcUtilCycle ==
    /\ procs.n < MaxProcs
    /\ \E listed \in AgentListings :
       \E read \in [listed -> LcUtils \cup {0}] :
          /\ \A c \in listed : read[c] \in LcUtils <=> c \in lc_set
          /\ \E period \in {[c \in listed \cap be_set |-> CPU_QUOTA_CORE]} :
                /\ MonUtilCycle(listed, read, period)
                /\ \E new \in {IF args.control THEN call'.bes \ call'.had
                               ELSE {}} :
                      procs' = StartAll(procs, "util",
                          QuotaWrites(new, budgeting(cpuq, new, period))
                          \o (IF sysmax_util' # sysmax_util
                              THEN <<[target |-> "lcmax.txt",
                                      value |-> sysmax_util']>>
                              ELSE <<>>)
                          \o (IF call'.budgeted
                              THEN QuotaWrites(call'.bes, call'.written)
                              ELSE <<>>))
    /\ UNCHANGED <<interrupt, loop_pc, main_pc, exit_code, timer, builder>>

(* mon_metric_cycle with the processes its LLC budgeting starts: pqos -a   *)
(* (llcoccup.py, line 45) and then pqos -e (line 55 or 69)                   *)
ProcMetricCycle ==
    /\ procs.n < MaxProcs
    /\ \E listed \in AgentListings, d \in AgentData :
          MonMetricCycle(listed,
                         [c \in {x \in listed : ~metric_cons[x].present}
                             |-> 0],
                         [c \in listed \cap lc_set |-> 2],
                         [c \in listed \cap lc_set |-> d])
    /\ procs' = StartAll(procs, "metric",
                    IF DOMAIN call'.written = {} THEN <<>>
                    ELSE <<[target |-> "pqos -a pid:1",
                            value |-> Cardinality(DOMAIN call'.written)],
                           [target |-> "pqos -e llc:1",
                            value |-> call'.written[
                                CHOOSE c \in DOMAIN call'.written : TRUE]]>>)
    /\ UNCHANGED <<interrupt, loop_pc, main_pc, exit_code, timer, builder>>

(* one of the started processes runs and ends *)
ProcDone ==
    /\ \E w \in procs.pending :
          procs' = [procs EXCEPT
                       !.pending = @ \ {w},
                       !.effect[w.target] = w.value,
                       !.inorder = @ /\ ~\E v \in procs.pending :
                                            v.loop = w.loop /\ v.n < w.n]
    /\ UNCHANGED <<ctrlVars, utilVars, detVars, metricVars, interrupt,
                   loop_pc, main_pc, exit_code, timer, builder>>

NextProc == ProcUtilCycle \/ ProcMetricCycle \/ ProcDone

SpecProc == InitProc /\ [][NextProc]_vars

(***************************************************************************)
(* The timing of monitor(func, ctx, interval) (eris.py, lines 336-350).    *)
(* Time is counted in ticks. timer.now is time.time(), timer.k the number  *)
(* of the invocation of the work body (from 0), timer.begun and            *)
(* timer.ended when the last work body began and returned, timer.slow      *)
(* whether some invocation has taken interval or more, timer.worked the    *)
(* time the work bodies have taken together.                               *)
(***************************************************************************)
interval == 3
MaxWork == 4
MaxTime == 14
Starts == {0, 1}

(* a schedule that counts the interval from the end of the work body *)
NextSlot_FromNow(next_time, now) == now + interval

(* monitor, line 346: next_time += interval *)
NextSlot(next_time, now) == next_time + interval

InitMonitor ==
    /\ InitLoops
    /\ interrupt = FALSE
    /\ loop_pc = [t \in Threads |-> "none"]
    /\ main_pc = "none"
    /\ exit_code = -1
    /\ procs = NoProcs
    /\ builder = NoBuilder
    /\ \E t0 \in Starts :
          timer = [pc |-> "top", start |-> t0, now |-> t0, next_time |-> t0,
                   k |-> -1, slow |-> FALSE, worked |-> 0,
                   begun |-> t0, ended |-> t0]

(* monitor, line 343: while not ctx.interrupt *)
MonTop ==
    /\ timer.pc = "top"
    /\ timer' = IF interrupt THEN [timer EXCEPT !.pc = "returned"]
                ELSE [timer EXCEPT !.pc = "work", !.k = @ + 1]
    /\ UNCHANGED <<ctrlVars, utilVars, detVars, metricVars, interrupt,
                   loop_pc, main_pc, exit_code, procs, builder>>

(* monitor, line 344: func(ctx), which takes d ticks from the moment the   *)
(* sleep was to end until it returns                                       *)
MonWork(d) ==
    /\ timer.pc = "work"
    /\ timer.now + d <= MaxTime
    /\ timer' = [timer EXCEPT !.pc = "slot", !.now = @ + d,
                              !.slow = @ \/ d >= interval,
                              !.worked = @ + d,
                              !.begun = timer.now, !.ended = timer.now + d]
    /\ UNCHANGED <<ctrlVars, utilVars, detVars, metricVars, interrupt,
                   loop_pc, main_pc, exit_code, procs, builder>>

(* a loop that runs the next work body at once when the slot has passed *)
MonSlot_CatchUp ==
    /\ timer.pc = "slot"
    /\ \E nt \in {NextSlot(timer.next_time, timer.now)} :
          timer' = [timer EXCEPT !.next_time = nt,
                                 !.pc = IF nt - timer.now > 0 THEN "sleep"
                                        ELSE "top"]
    /\ UNCHANGED <<ctrlVars, utilVars, detVars, metricVars, interrupt,
                   loop_pc, main_pc, exit_code, procs, builder>>

(* monitor, lines 345-349: one round of the inner loop *)
MonSlot ==
    /\ timer.pc = "slot"
    /\ \E nt \in {NextSlot(timer.next_time, timer.now)} :
          timer' = [timer EXCEPT !.next_time = nt,
                                 !.pc = IF nt - timer.now > 0 THEN "sleep"
                                        ELSE "slot"]
    /\ UNCHANGED <<ctrlVars, utilVars, detVars, metricVars, interrupt,
                   loop_pc, main_pc, exit_code, procs, builder>>

(* monitor, line 350: time.sleep(delta) *)
MonSleep ==
    /\ timer.pc = "sleep"
    /\ timer' = [timer EXCEPT !.pc = "top", !.now = timer.next_time]
    /\ UNCHANGED <<ctrlVars, utilVars, detVars, metricVars, interrupt,
                   loop_pc, main_pc, exit_code, procs, builder>>

(* main, line 580: ctx.interrupt = True *)
MonInterrupt ==
    /\ ~interrupt
    /\ timer.pc \notin {"none", "returned"}
    /\ interrupt' = TRUE
    /\ UNCHANGED <<ctrlVars, utilVars, detVars, metricVars, loop_pc,
                   main_pc, exit_code, timer, procs, builder>>

NextMonitor ==
    \/ MonTop
    \/ \E d \in 0..MaxWork : MonWork(d)
    \/ MonSlot
    \/ MonSleep
    \/ MonInterrupt

SpecMonitor == InitMonitor /\ [][NextMonitor]_vars

(***************************************************************************)
(* The order of the steps inside one cycle, read off the cycle's record:   *)
(* what mon_util_cycle and mon_metric_cycle (with set_metrics) do from top *)
(* to bottom, the containers taken in the order lc1, be1, be2.             *)
(***************************************************************************)
Step(kind, cid) == [step |-> kind, cid |-> cid]
If(cond, seq) == IF cond THEN seq ELSE <<>>

(* a utilization cycle that applies the controller's budget before the     *)
(* containers are sampled                                                  *)
UtilSteps_BudgetFirst(c) ==
    <<Step("discover", "")>>
    \o If(c.budgeted /\ "be1" \in c.bes, <<Step("budget", "be1")>>)
    \o If("lc1" \in c.listed, <<Step("update", "lc1")>>)
    \o If("be1" \in c.listed, <<Step("update", "be1")>>)
    \o If(c.op = "cycle+update", <<Step("detect", ""), Step("control", "")>>)

(* mon_util_cycle, lines 234-285: the listing; per listed container the    *)
(* quota write of a new BE container (line 252) and its CPU sample (line   *)
(* 256); the margin test (line 282); the controller update (line 285) with *)
(* the budgeting it calls                                                  *)
UtilSteps(c) ==
    LET Discovered(cid) ==
            If(cid \in c.listed,
               If(cid \in c.enrolled, <<Step("budget", cid)>>)
               \o <<Step("update", cid)>>)
        Budgeted(cid) ==
            If(c.budgeted /\ cid \in c.bes, <<Step("budget", cid)>>)
    IN  <<Step("discover", "")>>
        \o Discovered("lc1") \o Discovered("be1") \o Discovered("be2")
        \o If(c.op = "cycle+update",
              <<Step("detect", ""), Step("control", "")>>
              \o Budgeted("be1") \o Budgeted("be2"))

(* mon_metric_cycle, lines 295-333, and set_metrics: the listing; the CPU   *)
(* sample of each new container (line 316); the LLC budgeting of the new   *)
(* BE containers (line 324); the collector (line 327); per LC record the   *)
(* CPU sample (line 102) and the detections (lines 137-144); the update of *)
(* the controllers (line 186) with the budgeting it calls                  *)
MetricSteps(c) ==
    LET Discovered(cid) ==
            If(cid \in c.listed \ c.had, <<Step("update", cid)>>)
        Enrolled(cid) == If(cid \in c.enrolled, <<Step("budget", cid)>>)
        Budgeted(cid) ==
            If(c.budgeted /\ cid \in c.bes, <<Step("budget", cid)>>)
    IN  <<Step("discover", "")>>
        \o Discovered("lc1") \o Discovered("be1")
        \o Enrolled("be1")
        \o If(c.parsed, <<Step("update", "lc1")>>)
        \o If(c.detects, <<Step("detect", "lc1")>>)
        \o If(c.updated # {}, <<Step("control", "")>> \o Budgeted("be1"))

CycleSteps(c) ==
    IF c.op = "metrics" THEN MetricSteps(c)
    ELSE IF c.op \in {"cycle", "cycle+update"} THEN UtilSteps(c)
    ELSE <<>>

(* The container lists the budgeting calls of a cycle are given.           *)
(* an LLC enrolment without the test of the list *)
LlcEnrolment_Unguarded(new_bes) == {new_bes}

(* mon_metric_cycle, lines 323-324: if new_bes: ctx.llc.budgeting(new_bes) *)
LlcEnrolment(new_bes) == IF new_bes # {} THEN {new_bes} ELSE {}

(* mon_util_cycle: budgeting([con]) for each new BE container (line 252);  *)
(* both loops: budgeting(bes) from the controller's update (lines 285 and  *)
(* 186, under findbe)                                                      *)
BudgetingLists(c) ==
    (IF c.op = "metrics" THEN LlcEnrolment(c.enrolled)
     ELSE IF c.op \in {"cycle", "cycle+update"}
          THEN {{x} : x \in c.enrolled}
          ELSE {})
    \cup (IF c.op \in {"metrics", "cycle", "cycle+update"} /\ c.budgeted
          THEN {c.bes} ELSE {})

(***************************************************************************)
(* The two container maps over any sequence of discovery lists: the cycles *)
(* of the two loops in any order, each with any list docker can return     *)
(***************************************************************************)
MapCids == UtilCids \cap MetricCids
MapsRead(listed) ==
    [c \in listed |-> IF c \in lc_set THEN Percent(5) ELSE Percent(3)]

InitMaps == InitLoops /\ NoAgent

UtilMapCycle ==
    \E listed \in SUBSET MapCids :
        /\ MonUtilCycle(listed, MapsRead(listed),
                        [c \in listed \cap be_set |-> CPU_QUOTA_CORE])
        /\ UNCHANGED <<agentVars, builderVars>>

MetricMapCycle ==
    \E listed \in SUBSET MapCids, d \in AgentData :
        /\ MonMetricCycle(listed,
                          [c \in {x \in listed : ~metric_cons[x].present}
                              |-> 0],
                          [c \in listed \cap lc_set |-> 2],
                          [c \in listed \cap lc_set |-> d])
        /\ UNCHANGED <<agentVars, builderVars>>

NextMaps == UtilMapCycle \/ MetricMapCycle

SpecMaps == InitMaps /\ [][NextMaps]_vars

(***************************************************************************)
(* The controller driven directly: any detected, any hold, any BE list     *)
(***************************************************************************)
InitCtrl ==
    /\ \E m \in SysMaxInit : cpuq = NewCpuQuota(m)
    /\ \E t \in 1..MaxCycThresh :
          quota_controller = [cyc_cnt |-> 0, cyc_thresh |-> t]
    /\ call = NoCall
    /\ quiet = 0
    /\ args = NoArgs
    /\ sysmax_util = 0
    /\ util_cons = [c \in UtilCids |-> NoRecord]
    /\ lc = NoContainer
    /\ det = NoDetection
    /\ NoMetricsLoop
    /\ NoAgent

CtrlUpdate(bes, detected, hold, period) ==
    LET r == NaiveUpdate(quota_controller, cpuq, detected, hold)
    IN  /\ quota_controller' = r.ctl
        /\ cpuq' = r.res
        /\ call' = [op |-> "update", detected |-> detected, hold |-> hold,
                    pre |-> <<cpuq, quota_controller>>, bes |-> bes,
                    period |-> period, budgeted |-> r.budgeted,
                    written |-> IF r.budgeted
                                THEN budgeting(r.res, bes, period)
                                ELSE NoWrite]
        /\ quiet' = QuietNext(quiet, r, detected, hold)
        /\ UNCHANGED <<utilVars, detVars, metricVars, agentVars, builderVars>>

NextCtrl ==
    \E bes \in (SUBSET BeCids) \ {{}}, detected, hold \in BOOLEAN :
        \E period \in [bes -> Periods] :
            CtrlUpdate(bes, detected, hold, period)

SpecCtrl == InitCtrl /\ [][NextCtrl]_vars

(***************************************************************************)
(* The utilization loop with the content of each BE container's            *)
(* cpu.cfs_quota_us: procs.quota[c] is the value last written for c, in    *)
(* the order the cycle issues its writes (the write of the enrolment, line *)
(* 252, before those of the controller's budgeting, line 285).  The file   *)
(* goes with the cgroup of a container that is no longer listed.           *)
(***************************************************************************)
QuotaReads(listed) ==
    [c \in listed |-> IF c \in lc_set THEN Percent(5) ELSE Percent(3)]

InitQuota ==
    /\ sysmax_util = 20
    /\ cpuq = NewCpuQuota(20)
    /\ \E t \in QuotaCycles :
          quota_controller = [cyc_cnt |-> 0, cyc_thresh |-> t]
    /\ \E m \in MarginTenths :
          args = [NoArgs EXCEPT !.control = TRUE, !.margin_tenths = m]
    /\ util_cons = [c \in UtilCids |-> NoRecord]
    /\ call = NoCall
    /\ quiet = -1
    /\ lc = NoContainer
    /\ det = NoDetection
    /\ NoMetricsLoop
    /\ interrupt = FALSE
    /\ loop_pc = [t \in {"util", "metric"} |-> "none"]
    /\ main_pc = "none"
    /\ exit_code = -1
    /\ timer = NoTimer
    /\ builder = NoBuilder
    /\ procs = [quota |-> [c \in BeCids |-> NoValue]]

QuotaCycle ==
    /\ \E listed \in SUBSET UtilCids :
          /\ MonUtilCycle(listed, QuotaReads(listed),
                          [c \in listed \cap be_set |-> CPU_QUOTA_CORE])
          /\ procs' = [quota |-> [c \in BeCids |->
                          IF c \in DOMAIN call'.written THEN call'.written[c]
                          ELSE IF c \in listed THEN procs.quota[c]
                          ELSE NoValue]]
    /\ UNCHANGED <<interrupt, loop_pc, main_pc, exit_code, timer, builder>>

NextQuota == QuotaCycle

SpecQuota == InitQuota /\ [][NextQuota]_vars

(***************************************************************************)
(* Container.update_cpu_usage on the raw samples.  cpuacct.usage is the    *)
(* cumulative CPU time of the container's cgroup: positive for a running   *)
(* container and never decreasing; a read that gives no integer (the       *)
(* cgroup is gone) is NoInteger.  The clock counts ticks and moves between *)
(* two calls.  A utilization is kept as the pair <<dividend, divisor>> of  *)
(* the division the code makes.                                            *)
(***************************************************************************)
MaxUsage == 4
MaxClock == 5
NoInteger == -1
Fresh == [cpu_usage |-> 0, utils |-> <<0, 1>>, timestamp |-> 0]

(* an update that stores the time of a failed read *)
update_cpu_usage_raw_StampsFailure(rec, res, cur) ==
    IF res = NoInteger THEN [rec EXCEPT !.timestamp = cur]
    ELSE [cpu_usage |-> res,
          utils |-> IF rec.cpu_usage # 0
                    THEN <<(res - rec.cpu_usage) * 100, cur - rec.timestamp>>
                    ELSE rec.utils,
          timestamp |-> cur]

(* update_cpu_usage, lines 107-123: int(res) raises ValueError before any  *)
(* field is assigned                                                       *)
update_cpu_usage_raw(rec, res, cur) ==
    IF res = NoInteger THEN rec
    ELSE [cpu_usage |-> res,
          utils |-> IF rec.cpu_usage # 0
                    THEN <<(res - rec.cpu_usage) * 100, cur - rec.timestamp>>
                    ELSE rec.utils,
          timestamp |-> cur]

InitUsage ==
    /\ lc = [con |-> Fresh, cur |-> 0, reads |-> 0]
    /\ call = [op |-> "init"]
    /\ det = [done |-> FALSE]
    /\ NoMetricsLoop
    /\ NoAgent
    /\ cpuq = NewCpuQuota(0)
    /\ quota_controller = [cyc_cnt |-> 0, cyc_thresh |-> 1]
    /\ quiet = -1
    /\ args = NoArgs
    /\ sysmax_util = 0
    /\ util_cons = [c \in UtilCids |-> NoRecord]

(* one call of update_cpu_usage at time cur with the read res *)
UpdateCpuUsage(res, cur) ==
    /\ cur > lc.cur
    /\ cur <= MaxClock
    /\ res = NoInteger \/ res >= lc.con.cpu_usage
    /\ lc' = [con |-> update_cpu_usage_raw(lc.con, res, cur), cur |-> cur,
              reads |-> IF res = NoInteger THEN lc.reads ELSE lc.reads + 1]
    /\ call' = [op |-> "update_cpu_usage", pre |-> lc.con,
                had |-> lc.reads > 0, res |-> res, cur |-> cur]
    /\ UNCHANGED <<cpuq, quota_controller, quiet, utilVars, det, metricVars,
                   agentVars, builderVars>>

NextUsage ==
    \E res \in {NoInteger} \cup 1..MaxUsage, cur \in 1..MaxClock :
        UpdateCpuUsage(res, cur)

SpecUsage == InitUsage /\ [][NextUsage]_vars

(***************************************************************************)
(* The threshold builder (analyze.py).  A fence of the quartile strategy   *)
(* is kept in twelfths: 12 * (thresh * 3 / 4 - 2 / 3) = 9 * thresh - 8 is  *)
(* an integer, so the fence of an integer sample is exact.                 *)
(***************************************************************************)
MaxSample == 4
MaxRows == 3
max_mixture == 10
SampleValues == {1, 2, 4, 8}
Threshs == {2, 4}
FenseTypes == {"quartile", "normal", "gmm-strict", "gmm-normal"}

Raised == [raised |-> TRUE]
Returned(v) == [raised |-> FALSE, val |-> v]

RECURSIVE Sum(_)
Sum(seq) == IF seq = <<>> THEN 0 ELSE Head(seq) + Sum(Tail(seq))
Squares(seq) == [i \in 1..Len(seq) |-> seq[i] * seq[i]]

(* a quartile fence on the sample as it comes, without sorting it *)
get_quartile_Unsorted(thresh, mdf, is_upper) ==
    IF Len(mdf) = 0 THEN Raised
    ELSE LET quar1 == mdf[Len(mdf) \div 4 + 1]
             quar3 == mdf[(Len(mdf) * 3) \div 4 + 1]
             val == (quar3 - quar1) * (9 * thresh - 8)
         IN  Returned([k |-> "fin",
                       twelfths |-> IF is_upper THEN 12 * quar3 + val
                                    ELSE 12 * quar1 - val])

(* get_quartile: iloc on an empty series raises IndexError; indices of the *)
(* source count from 0                                                     *)
get_quartile(thresh, mdf, is_upper) ==
    IF Len(mdf) = 0 THEN Raised
    ELSE LET sorted == SortSeq(mdf, LAMBDA x, y : x < y)
             quar1 == sorted[Len(mdf) \div 4 + 1]
             quar3 == sorted[(Len(mdf) * 3) \div 4 + 1]
             iqr == quar3 - quar1
             val == iqr * (9 * thresh - 8)
         IN  Returned([k |-> "fin",
                       twelfths |-> IF is_upper THEN 12 * quar3 + val
                                    ELSE 12 * quar1 - val])

(* get_normal: mean +/- thresh * std.  The mean of an empty series and the *)
(* unbiased deviation of fewer than two values are NaN, and nothing is     *)
(* raised; otherwise the fence is the number fixed by the sample's size,   *)
(* sum and sum of squares                                                  *)
get_normal(thresh, mdf, is_upper) ==
    IF Len(mdf) < 2 THEN Returned(NaN)
    ELSE Returned([k |-> "fin", thresh |-> thresh, is_upper |-> is_upper,
                   n |-> Len(mdf), sum |-> Sum(mdf),
                   squares |-> Sum(Squares(mdf))])

(* GmmFense: the constructor fits mixtures of 1..max_mixture components,   *)
(* and a fit of more components than samples raises ValueError; a fitted   *)
(* model gives a fence taken from the sample                               *)
gmm_fense(mdf, is_upper, strict) ==
    IF Len(mdf) < max_mixture THEN Raised
    ELSE Returned([k |-> "fin", strict |-> strict, is_upper |-> is_upper,
                   data |-> mdf])

get_fense(fense_type, thresh, mdf, is_upper) ==
    CASE fense_type = "quartile" -> get_quartile(thresh, mdf, is_upper)
      [] fense_type = "normal" -> get_normal(thresh, mdf, is_upper)
      [] fense_type = "gmm-strict" -> gmm_fense(mdf, is_upper, TRUE)
      [] fense_type = "gmm-normal" -> gmm_fense(mdf, is_upper, FALSE)

(* The quartile fence on its own: any sample of up to MaxSample values     *)
RECURSIVE Samples(_)
Samples(n) ==
    IF n = 0 THEN {<<>>}
    ELSE Samples(n - 1)
         \cup {Append(m, v) : m \in {x \in Samples(n - 1) : Len(x) = n - 1},
                              v \in SampleValues}

InitFence ==
    /\ \E t \in Threshs, m \in Samples(MaxSample) :
          builder = [pc |-> "sample", thresh |-> t, mdf |-> m]
    /\ lc = [utils |-> 0]
    /\ det = [done |-> FALSE]
    /\ NoMetricsLoop
    /\ interrupt = FALSE
    /\ loop_pc = [t \in {"util", "metric"} |-> "none"]
    /\ main_pc = "none"
    /\ exit_code = -1
    /\ timer = NoTimer
    /\ procs = NoProcs
    /\ cpuq = NewCpuQuota(0)
    /\ quota_controller = [cyc_cnt |-> 0, cyc_thresh |-> 1]
    /\ call = NoCall
    /\ quiet = -1
    /\ args = NoArgs
    /\ sysmax_util = 0
    /\ util_cons = [c \in UtilCids |-> NoRecord]

GetQuartile(is_upper) ==
    /\ builder.pc = "sample"
    /\ builder' = [pc |-> "fenced", thresh |-> builder.thresh,
                   mdf |-> builder.mdf, is_upper |-> is_upper,
                   fence |-> get_quartile(builder.thresh, builder.mdf,
                                          is_upper)]
    /\ UNCHANGED <<ctrlVars, utilVars, detVars, metricVars, agentVars>>

NextFence == \E is_upper \in BOOLEAN : GetQuartile(is_upper)

SpecFence == InitFence /\ [][NextFence]_vars

(* The builder's data: metrics.csv rows of the workloads a (1 CPU) and b   *)
(* (2 CPUs) of the workload file                                           *)
default_thresh == 4
workloadinfo == [a |-> 1, b |-> 2]
RowUtils == [a |-> {40, 100, 120, 200}, b |-> {100, 250, 300, 310}]
BuilderRows ==
    {[CID |-> cid, UTIL |-> u, CPI |-> u \div 20, L3MPKI |-> 1,
      MBL |-> 3, MBR |-> u \div 100] :
        cid \in {"a"}, u \in RowUtils.a}
    \cup {[CID |-> cid, UTIL |-> u, CPI |-> u \div 20, L3MPKI |-> 1,
           MBL |-> 3, MBR |-> u \div 100] :
             cid \in {"b"}, u \in RowUtils.b}

RECURSIVE Files(_)
Files(n) ==
    IF n = 0 THEN {<<>>}
    ELSE Files(n - 1)
         \cup {Append(m, r) : m \in {x \in Files(n - 1) : Len(x) = n - 1},
                              r \in BuilderRows}

(* mdf['CID'].unique(): the ids in the order of their first row *)
RECURSIVE Unique(_)
Unique(rows) ==
    IF rows = <<>> THEN <<>>
    ELSE LET rest == Unique(SelectSeq(Tail(rows),
                                      LAMBDA r : r.CID # Head(rows).CID))
         IN  <<Head(rows).CID>> \o rest

(* the columns the fences are built from: CPI, L3MPKI and MBL + MBR *)
CpiColumn(rows) == [i \in 1..Len(rows) |-> rows[i].CPI]
MpkiColumn(rows) == [i \in 1..Len(rows) |-> rows[i].L3MPKI]
MembColumn(rows) == [i \in 1..Len(rows) |-> rows[i].MBL + rows[i].MBR]

(* a partition that starts at 100 * cpu_number *)
partition_utilization_FromFull(cpu_number, step) ==
    LET utilization_upper == (cpu_number + 1) * 100
        utilization_lower == cpu_number * 100
        count == (utilization_upper - utilization_lower + step - 1) \div step
    IN  [i \in 1..count |-> utilization_lower + (i - 1) * step]

(* partition_utilization: np.arange(lower, upper, step) *)
partition_utilization(cpu_number, step) ==
    LET utilization_upper == (cpu_number + 1) * 100
        utilization_lower == cpu_number * 50
        count == (utilization_upper - utilization_lower + step - 1) \div step
    IN  [i \in 1..count |-> utilization_lower + (i - 1) * step]

NoBin == [cid |-> "", index |-> -1]

InitBuilder ==
    /\ \E f \in FenseTypes, t \in {default_thresh}, m \in Files(MaxRows) :
          builder = [pc |-> IF m = <<>> THEN "done" ELSE "workload",
                     fense_type |-> f, thresh |-> t, mdf |-> m,
                     w |-> 1, index |-> 0, thresh_csv |-> <<>>,
                     tdp_csv |-> <<>>, bin |-> NoBin]
    /\ lc = [utils |-> 0]
    /\ det = [done |-> FALSE]
    /\ NoMetricsLoop
    /\ interrupt = FALSE
    /\ loop_pc = [t \in {"util", "metric"} |-> "none"]
    /\ main_pc = "none"
    /\ exit_code = -1
    /\ timer = NoTimer
    /\ procs = NoProcs
    /\ cpuq = NewCpuQuota(0)
    /\ quota_controller = [cyc_cnt |-> 0, cyc_thresh |-> 1]
    /\ call = NoCall
    /\ quiet = -1
    /\ args = NoArgs
    /\ sysmax_util = 0
    /\ util_cons = [c \in UtilCids |-> NoRecord]

(* process_by_partition, lines 135-161: the next workload of the file and  *)
(* its row of tdp_thresh.csv, written when the workload has rows at or     *)
(* above 95% of its CPUs (the threshold is kept in percent, 95 * cpu_no)   *)
StartWorkload ==
    /\ builder.pc = "workload"
    /\ LET cid == Unique(builder.mdf)[builder.w]
           jdata == SelectSeq(builder.mdf, LAMBDA r : r.CID = cid)
           utilization_threshold == workloadinfo[cid] * 95
           tdp_data == SelectSeq(jdata,
                                 LAMBDA r : r.UTIL >= utilization_threshold)
       IN  builder' = [builder EXCEPT
               !.pc = "bins", !.index = 0,
               !.tdp_csv = IF tdp_data = <<>> THEN @
                           ELSE Append(@, [CID |-> cid,
                                           UTIL |-> utilization_threshold,
                                           n |-> Len(tdp_data)])]
    /\ UNCHANGED <<ctrlVars, utilVars, detVars, metricVars, agentVars>>

(* process_by_partition, lines 163-196: one turn of the loop over the bins *)
(* of the workload: the filter, the three fences, and the row of           *)
(* thresh.csv unless one of them raised                                    *)
ProcessBin ==
    /\ builder.pc = "bins"
    /\ LET cids == Unique(builder.mdf)
           cid == cids[builder.w]
           jdata == SelectSeq(builder.mdf, LAMBDA r : r.CID = cid)
           utilization_partition ==
               partition_utilization(workloadinfo[cid], 50)
           length == Len(utilization_partition)
           index == builder.index
           lower_bound == utilization_partition[index + 1]
           higher_bound == IF index # length - 1
                           THEN utilization_partition[index + 2]
                           ELSE lower_bound + 50
           jdataf == SelectSeq(jdata, LAMBDA r : /\ r.UTIL >= lower_bound
                                                 /\ r.UTIL <= higher_bound)
           Fense(mdf, is_upper) ==
               get_fense(builder.fense_type, builder.thresh, mdf, is_upper)
           cpi_thresh == Fense(CpiColumn(jdataf), TRUE)
           mpki_thresh == Fense(MpkiColumn(jdataf), TRUE)
           mb_thresh == Fense(MembColumn(jdataf), FALSE)
           raised == \/ cpi_thresh.raised
                     \/ mpki_thresh.raised
                     \/ mb_thresh.raised
           last == index = length - 1
       IN  builder' = [builder EXCEPT
               !.pc = IF ~last THEN "bins"
                      ELSE IF builder.w < Len(cids) THEN "workload"
                      ELSE "done",
               !.index = IF last THEN 0 ELSE index + 1,
               !.w = IF last THEN @ + 1 ELSE @,
               !.bin = [cid |-> cid, index |-> index,
                        lower_bound |-> lower_bound,
                        higher_bound |-> higher_bound,
                        rows |-> jdataf, skipped |-> raised],
               !.thresh_csv =
                   IF raised THEN @
                   ELSE Append(@, [CID |-> cid, UTIL_START |-> lower_bound,
                                   UTIL_END |-> higher_bound,
                                   CPI_THRESH |-> cpi_thresh.val,
                                   MPKI_THRESH |-> mpki_thresh.val,
                                   MB_THRESH |-> mb_thresh.val])]
    /\ UNCHANGED <<ctrlVars, utilVars, detVars, metricVars, agentVars>>

NextBuilder == StartWorkload \/ ProcessBin

SpecBuilder == InitBuilder /\ [][NextBuilder]_vars

(***************************************************************************)
(* Properties of the controller and the CPU-quota resource                 *)
(***************************************************************************)
PreRes == call.pre[1]
PreCtl == call.pre[2]
IsUpdate == call.op = "update"

(* C1: after update(be_containers, detected = true, hold), whatever the    *)
(* prior level, the prior counter and hold, the resource is at MIN and the *)
(* quiet-cycle counter is 0.                                               *)
C1_DetectedLeavesMin ==
    (IsUpdate /\ call.detected) =>
        /\ cpuq.quota_level = BUGET_LEV_MIN
        /\ quota_controller.cyc_cnt = 0

C1_Witness ==
    /\ IsUpdate /\ call.detected /\ call.hold
    /\ PreRes.quota_level = BUGET_LEV_MAX - 1
    /\ PreCtl.cyc_cnt = 2
    /\ cpuq.quota_level = BUGET_LEV_MIN

(* C2: from MIN with counter 0, after k*T quiet calls in a row              *)
(* (detected = false, hold = false) the level is k for k < 20 and FULL from *)
(* k = 20 on (level 20 itself is never held); a call with detected = true   *)
(* returns the level to 0.                                                  *)
C2_QuietClimb ==
    /\ (quiet >= 0 /\ quiet % quota_controller.cyc_thresh = 0) =>
          LET k == quiet \div quota_controller.cyc_thresh
          IN  cpuq.quota_level = IF k < BUGET_LEV_MAX THEN k
                                 ELSE BUGET_LEV_FULL
    /\ (IsUpdate /\ call.detected) => cpuq.quota_level = 0

C2_Witness ==
    /\ quota_controller.cyc_thresh = 3
    /\ quiet = 6
    /\ cpuq.quota_level = 2

(* C3: update(detected = false, hold) with hold true or the resource at    *)
(* FULL changes nothing: level, platform quota and counter keep their      *)
(* values and budgeting writes nothing.                                    *)
C3_HoldOrFullNoOp ==
    (IsUpdate /\ ~call.detected
        /\ (call.hold \/ PreRes.quota_level = BUGET_LEV_FULL)) =>
        /\ cpuq = PreRes
        /\ quota_controller = PreCtl
        /\ call.written = NoWrite

C3_Witness ==
    /\ IsUpdate /\ ~call.detected /\ ~call.hold
    /\ PreRes.quota_level = BUGET_LEV_FULL
    /\ cpuq.quota_level = BUGET_LEV_FULL

C3_WitnessHold ==
    /\ IsUpdate /\ ~call.detected /\ call.hold
    /\ PreRes.quota_level = 3
    /\ PreCtl.cyc_cnt = 1

(* C9: in every reachable state of the agent the platform quota of the     *)
(* CPU-quota resource is the conversion of its current level with its      *)
(* current quota_step: -1 at FULL, 1000 at MIN, else level *                *)
(* floor(quota_max / 20).                                                   *)
C9_QuotaFollowsLevel ==
    cpuq.cpu_quota = LevelQuota(cpuq.quota_level, cpuq.quota_max)

(* a cycle that raised quota_max and left the platform quota of level 1 as *)
(* it was                                                                  *)
C9_StaleQuota ==
    /\ call.op = "cycle"
    /\ cpuq.quota_level = 1
    /\ cpuq.cpu_quota < QuotaStepInt(cpuq.quota_max)

(* C8: once quota_max > 0 the platform quota is a non-decreasing function  *)
(* of the level over 0..19, the step from MIN to level 1 included.         *)
C8_QuotaMonotone ==
    cpuq.quota_max > 0 =>
        \A L1, L2 \in BUGET_LEV_MIN..(BUGET_LEV_MAX - 1) :
            L1 <= L2 =>
                LevelQuota(L1, cpuq.quota_max) <= LevelQuota(L2, cpuq.quota_max)

(* the step from MIN to level 1 lowers the platform quota *)
C8_StepLowersQuota ==
    /\ IsUpdate
    /\ PreRes.quota_max > 0
    /\ PreRes.quota_level = BUGET_LEV_MIN
    /\ cpuq.quota_level = 1
    /\ cpuq.cpu_quota < PreRes.cpu_quota

(* C10: budgeting over n >= 1 containers writes the platform quota itself  *)
(* at MIN or FULL, and at any other level floor(q * period / 100000) with  *)
(* q = floor(platform quota / n), for every q and every measured period.   *)
C10_BudgetWrites ==
    \A c \in DOMAIN call.written :
        call.period[c] # 0 =>
            call.written[c] =
                IF cpuq.quota_level \in {BUGET_LEV_MIN, BUGET_LEV_FULL}
                THEN cpuq.cpu_quota
                ELSE ((cpuq.cpu_quota \div Cardinality(call.bes))
                        * call.period[c]) \div CPU_QUOTA_CORE

(* a share of 1000 at level 1, written unscaled to a container whose period *)
(* is half a core                                                           *)
C10_ShareTakenForMin ==
    /\ IsUpdate
    /\ cpuq.quota_level = 1
    /\ \E c \in DOMAIN call.written :
          /\ call.period[c] = 50000
          /\ call.written[c] = CPU_QUOTA_MIN

(***************************************************************************)
(* Properties of the detection methods                                     *)
(***************************************************************************)
UsedBin == lc.thresh[det.bin]
HighCpi == FGt(lc.metrics.CPI, UsedBin.cpi)
HighMpki == FGt(lc.metrics.L3MPKI, UsedBin.mpki)
LowMb == FLt(FAdd(lc.metrics.MBL, lc.metrics.MBR), UsedBin.mb)

(* C4: within the applicable bin the event is LLC iff CPI > cpi_upper and  *)
(* MPKI > mpki_upper; MEM_BW iff CPI > cpi_upper, MPKI not above           *)
(* mpki_upper and MBL + MBR < mb_lower; UNKN iff CPI > cpi_upper and       *)
(* neither; no event iff CPI is not above cpi_upper.                       *)
C4_BinPriority ==
    (det.done /\ det.bin # 0) =>
        /\ det.contend = "LLC" <=> (HighCpi /\ HighMpki)
        /\ det.contend = "MEM_BW" <=> (HighCpi /\ ~HighMpki /\ LowMb)
        /\ det.contend = "UNKN" <=> (HighCpi /\ ~HighMpki /\ ~LowMb)
        /\ det.contend = "None" <=> ~HighCpi

(* cache misses and a bandwidth collapse at once: LLC *)
C4_Witness ==
    /\ det.done /\ det.bin # 0
    /\ HighCpi /\ HighMpki /\ LowMb
    /\ det.contend = "LLC"

(* the bins that hold u, and the bins that start at or below u *)
Holding(con) ==
    {i \in 1..Len(con.thresh) :
        con.thresh[i].util_start <= con.utils
            /\ con.utils < con.thresh[i].util_end}
StartedBy(con) ==
    {i \in 1..Len(con.thresh) : con.thresh[i].util_start <= con.utils}
Least(S) == CHOOSE i \in S : \A j \in S : i <= j
Greatest(S) == CHOOSE i \in S : \A j \in S : j <= i

(* C5: for a sorted bin list contention_detect evaluates no bin when the   *)
(* list is empty or u is below the first util_start; else the first bin    *)
(* with util_start <= u < util_end when there is one; else the last bin    *)
(* when u is at or above its util_start; else (u in a gap) the bin right   *)
(* before the gap.                                                         *)
C5_BinChoice ==
    det.done =>
        det.bin =
            IF lc.thresh = <<>> \/ lc.utils < lc.thresh[1].util_start THEN 0
            ELSE IF Holding(lc) # {} THEN Least(Holding(lc))
            ELSE IF lc.utils >= lc.thresh[Len(lc.thresh)].util_start
                 THEN Len(lc.thresh)
            ELSE Greatest(StartedBy(lc))

(* u in the gap between the second and the third bin: the second bin *)
C5_Witness ==
    /\ det.done
    /\ Len(lc.thresh) = 3
    /\ lc.utils >= lc.thresh[2].util_end
    /\ lc.utils < lc.thresh[3].util_start
    /\ det.bin = 2

NaNLive ==
    \/ IsNaN(lc.metrics.CPI)
    \/ IsNaN(lc.metrics.L3MPKI)
    \/ IsNaN(FAdd(lc.metrics.MBL, lc.metrics.MBR))
NaNThresh == IsNaN(UsedBin.cpi) \/ IsNaN(UsedBin.mpki) \/ IsNaN(UsedBin.mb)

(* C7 as claimed: a container whose live CPI, MPKI or MBL + MBR is NaN, or *)
(* whose bin thresholds are NaN, gets no event.                            *)
C7_NaNNoEvent ==
    (det.done /\ det.bin # 0 /\ (NaNLive \/ NaNThresh)) =>
        det.contend = "None"

(* C7 as amended: every comparison against NaN counts as not contended: a  *)
(* NaN CPI or CPI threshold gives no event, a NaN MPKI or MPKI threshold   *)
(* never gives LLC, a NaN MBL + MBR or bandwidth threshold never gives     *)
(* MEM_BW; the other comparisons still decide, and detection returns.      *)
C7_NaNComparesFalse ==
    (det.done /\ det.bin # 0) =>
        /\ (IsNaN(lc.metrics.CPI) \/ IsNaN(UsedBin.cpi)) =>
              det.contend = "None"
        /\ (IsNaN(lc.metrics.L3MPKI) \/ IsNaN(UsedBin.mpki)) =>
              det.contend # "LLC"
        /\ (IsNaN(FAdd(lc.metrics.MBL, lc.metrics.MBR)) \/ IsNaN(UsedBin.mb)) =>
              det.contend # "MEM_BW"
        /\ det.contend \in {"LLC", "MEM_BW", "UNKN", "None"}

(* a NaN MPKI beside an elevated CPI: an UNKN event *)
C7_Witness ==
    /\ det.done /\ det.bin # 0
    /\ IsNaN(lc.metrics.L3MPKI)
    /\ HighCpi
    /\ det.contend = "UNKN"

(* C6, the method alone: TDP iff there is a thermal row, utilization is at *)
(* or above its util_floor and the normalized frequency is below its        *)
(* freq_bar, whatever the bin-based detection returned.                     *)
C6_ThermalIff ==
    det.done =>
        (det.tdp = "TDP" <=>
            /\ lc.tdp_thresh # <<>>
            /\ lc.utils >= lc.tdp_thresh[1].util
            /\ FLt(lc.metrics.NF, lc.tdp_thresh[1].bar))

(* a bin-based event and a thermal event for the same record *)
C6_WitnessBoth ==
    /\ det.done
    /\ det.contend # "None"
    /\ det.tdp = "TDP"

(* a thermal event without a bin-based one *)
C6_WitnessThermalOnly ==
    /\ det.done
    /\ det.contend = "None"
    /\ det.tdp = "TDP"

(***************************************************************************)
(* Properties of a metrics cycle                                           *)
(***************************************************************************)
CycleLc == metric_cons["lc1"]
DetectCycle ==
    /\ call.op = "metrics" /\ args.detect
    /\ CycleLc.present /\ CycleLc.metrics # <<>>

(* C6, in the agent: in a metrics cycle with detection enabled, an LC      *)
(* record whose metrics meet both a bin's contention condition and the     *)
(* thermal condition yields a bin-based event and a TDP event.             *)
C6_CycleYieldsBoth ==
    (/\ DetectCycle
     /\ contention_detect(CycleLc).event # "None"
     /\ tdp_contention_detect(CycleLc) = "TDP") =>
        /\ det.done
        /\ det.contend = contention_detect(CycleLc).event
        /\ det.tdp = "TDP"

(* such a cycle ends with the metrics thread's exception and no event *)
C6_CycleRaised ==
    /\ DetectCycle
    /\ contention_detect(CycleLc).event # "None"
    /\ tdp_contention_detect(CycleLc) = "TDP"
    /\ metric_thread = "raised"
    /\ ~det.done

(* no metrics cycle of the agent gets to the detection calls *)
DetectionNeverRuns == ~det.done

(***************************************************************************)
(* Properties of the utilization loop                                      *)
(***************************************************************************)
Listed(cons) == {c \in DOMAIN cons : cons[c].present}
CycleLcUtils == SumUtils(util_cons, Listed(util_cons) \cap lc_set)
CycleBeUtils == SumUtils(util_cons, Listed(util_cons) \cap be_set)
(* (lc_util + be_util) * 1000 + margin, utilizations in hundredths of a     *)
(* percent and margin = 100000 * margin_ratio                               *)
CycleDemand ==
    (CycleLcUtils + CycleBeUtils) * 10 + 10000 * args.margin_tenths

(* C11: the (exceed, hold) a cycle hands to the controller are              *)
(* exceed = (lc_util = 0) or (demand > quota_max) and, with enable_hold,    *)
(* hold = (demand + quota_max / 20 >= quota_max), whatever the level and   *)
(* the platform quota of the resource.                                      *)
C11_MarginExceed ==
    call.op = "cycle+update" =>
        /\ call.detected <=>
              (CycleLcUtils = 0 \/ CycleDemand > cpuq.quota_max)
        /\ call.hold <=>
              /\ args.enable_hold
              /\ 20 * CycleDemand + cpuq.quota_max >= 20 * cpuq.quota_max

(* hold without exceed, at a level above MIN: demand equal to quota_max *)
C11_Witness ==
    /\ call.op = "cycle+update"
    /\ ~call.detected /\ call.hold
    /\ CycleDemand = cpuq.quota_max
    /\ cpuq.quota_level > BUGET_LEV_MIN

(***************************************************************************)
(* Properties of the LLC resource                                          *)
(***************************************************************************)
RECURSIVE Pow2(_)
Pow2(n) == IF n = 0 THEN 1 ELSE 2 * Pow2(n - 1)
(* the mask with exactly the n lowest bits set *)
LowBits(n) == Pow2(n) - 1
MaskOf(level) ==
    LlcBudgeting([kind |-> "llc", quota_level |-> level], {"be1"})["be1"]

(* C12: LlcOccup.budgeting puts every container of its list in the one      *)
(* class of service and installs one mask for it: the L + 1 lowest bits at  *)
(* level L in 0..19, all 20 bits at FULL and at any level past the table;   *)
(* the mask's width does not decrease with the level.                       *)
C12_LlcMask ==
    /\ (call.op = "metrics" /\ call.written # NoWrite) =>
          /\ DOMAIN call.written \subseteq Listed(metric_cons) \cap be_set
          /\ \A c \in DOMAIN call.written :
                call.written[c] =
                    IF llc.quota_level \in 0..19
                    THEN LowBits(llc.quota_level + 1)
                    ELSE LowBits(20)
    /\ \A L \in 0..19 : MaskOf(L) = LowBits(L + 1)
    /\ \A L \in {BUGET_LEV_FULL} \cup 20..25 : MaskOf(L) = LowBits(20)
    /\ \A L1, L2 \in 0..19 : L1 <= L2 => MaskOf(L1) <= MaskOf(L2)
    /\ \A L \in 0..19 : MaskOf(L) <= MaskOf(BUGET_LEV_FULL)

(* the controller's step to level 4 installs 0x1f for the BE container *)
C12_Witness ==
    /\ call.op = "metrics"
    /\ llc.quota_level = 4
    /\ "be1" \in DOMAIN call.written
    /\ call.written["be1"] = 31

(***************************************************************************)
(* Properties of the metrics loop's control step                           *)
(***************************************************************************)
(* a cycle that collects metrics with detection and LLC control on and a   *)
(* BE container listed                                                      *)
ControlCycle ==
    /\ call.op = "metrics"
    /\ args.detect /\ args.control /\ ~args.disable_cat
    /\ CycleLc.present
    /\ call.bes # {}

(* C13: in a metrics cycle with detection and control enabled and a BE     *)
(* container present the LLC controller is updated exactly once, with      *)
(* hold = false and detected = true iff the bin-based detection of an LC   *)
(* container returned LLC; MEM_BW, TDP and UNKN never give detected = true. *)
C13_LlcUpdateOnce ==
    ControlCycle =>
        /\ call.updates = 1
        /\ ~call.hold
        /\ call.detected <=>
              /\ CycleLc.metrics # <<>>
              /\ contention_detect(CycleLc).event = "LLC"

(* a cycle whose LC record meets the LLC condition ends without any update *)
(* of the LLC controller                                                    *)
C13_NoUpdate ==
    /\ ControlCycle
    /\ CycleLc.metrics # <<>>
    /\ contention_detect(CycleLc).event = "LLC"
    /\ call.updates = 0
    /\ metric_thread = "raised"

(***************************************************************************)
(* Properties of the suspect attribution                                   *)
(***************************************************************************)
(* the kinds the detections return on the cycle's LC record *)
FiredKinds ==
    {contention_detect(CycleLc).event, tdp_contention_detect(CycleLc)}
        \cap {"LLC", "MEM_BW", "TDP"}
(* the other records of the cycle; none of them has a history, so each of  *)
(* their deltas is 0                                                        *)
OtherRecords == Listed(metric_cons) \ {"lc1"}

(* C14: when an event of kind LLC, MEM_BW or TDP fires on the LC record    *)
(* the attribution for that kind completes and names a suspect, which is   *)
(* "unknown" when no other record has a positive delta.                    *)
C14_SuspectNamed ==
    DetectCycle =>
        \A k \in FiredKinds :
            /\ k \in DOMAIN call.suspects
            /\ (\A c \in OtherRecords : metric_cons[c].history = 0) =>
                  call.suspects[k] = "unknown"

(* an LLC event due on the LC record beside a BE record, and no suspect    *)
(* named                                                                    *)
C14_NoSuspect ==
    /\ DetectCycle
    /\ "LLC" \in FiredKinds
    /\ OtherRecords # {}
    /\ call.suspects = NoWrite

(* no metrics cycle of the agent names a suspect *)
AttributionNeverRuns == call.op = "metrics" => call.suspects = NoWrite

(***************************************************************************)
(* Properties of the agent                                                 *)
(***************************************************************************)
UtilState == <<util_cons, sysmax_util, cpuq, quota_controller>>
MetricState == <<metric_cons, llc, llc_controller>>
UtilStep == loop_pc["util"] = "work" /\ loop_pc'["util"] # "work"
MetricStep == loop_pc["metric"] = "work" /\ loop_pc'["metric"] # "work"

(* C16: under any interleaving of the two loops, the utilization container *)
(* map, the remembered system max, the CPU-quota resource and its          *)
(* controller change only in a step of the utilization loop, the metrics   *)
(* container map, the LLC resource and its controller only in a step of    *)
(* the metrics loop, and the interrupt flag in neither: a cycle of the     *)
(* metrics loop never updates the CPU-cycle controller.                    *)
C16_LoopsDisjoint ==
    [][/\ UtilState' # UtilState => UtilStep /\ ~MetricStep
       /\ MetricState' # MetricState => MetricStep /\ ~UtilStep
       /\ UtilStep \/ MetricStep => UNCHANGED interrupt]_vars

(* a metrics cycle has updated its controller while the utilization loop   *)
(* has raised the quota level                                              *)
C16_Witness ==
    /\ call.op = "metrics"
    /\ call.updated = {"LLC"}
    /\ cpuq.quota_level > BUGET_LEV_MIN
    /\ llc.quota_level > BUGET_LEV_MIN
    /\ loop_pc["util"] = "work"

(***************************************************************************)
(* Properties of the container maps                                        *)
(***************************************************************************)
Keys(cons) == {c \in DOMAIN cons : cons[c].present}

(* C17: in every cycle of either loop, after eviction and discovery the    *)
(* keys of the loop's container map are the containers of the cycle's      *)
(* discovery list, the later steps of the cycle (the BE list, the writes)  *)
(* touch listed containers only, and a container that was in the map and   *)
(* is listed again keeps its record: its utilization is computed against   *)
(* its previous sample, its thresholds and its last metrics stay.          *)
C17_MapFollowsDiscovery ==
    [][/\ call'.op \in {"cycle", "cycle+update"} =>
            /\ Keys(util_cons') = call'.listed
            /\ call'.bes \subseteq call'.listed
            /\ DOMAIN call'.written \subseteq call'.listed
            /\ \A c \in call'.listed :
                  util_cons[c].present /\ util_cons[c].sampled =>
                      /\ util_cons'[c].sampled
                      /\ util_cons'[c].utils = MapsRead(call'.listed)[c]
       /\ call'.op = "metrics" =>
            /\ Keys(metric_cons') = call'.listed
            /\ call'.bes \subseteq call'.listed
            /\ DOMAIN call'.written \subseteq call'.listed
            /\ \A c \in call'.listed :
                  metric_cons[c].present =>
                      /\ metric_cons'[c].thresh = metric_cons[c].thresh
                      /\ metric_cons'[c].history >= metric_cons[c].history
                      /\ metric_cons[c].sampled => metric_cons'[c].sampled
                      /\ metric_cons[c].metrics # <<>> =>
                            metric_cons'[c].metrics # <<>>]_vars

(* a metrics cycle in which one container has vanished and another, which  *)
(* has metrics, is listed again                                            *)
C17_Witness ==
    /\ call.op = "metrics"
    /\ call.had = {"lc1", "be1"}
    /\ call.listed = {"lc1"}
    /\ Keys(metric_cons) = {"lc1"}
    /\ metric_cons["lc1"].metrics # <<>>
    /\ Keys(util_cons) = {"lc1", "be1"}

(***************************************************************************)
(* Properties of monitor's schedule                                        *)
(***************************************************************************)
(* C18: as long as every work body has taken less than the interval, the   *)
(* k-th invocation of the work body (k from 0) is scheduled at, and starts *)
(* at, start + k * interval, whatever time the bodies before it took; so   *)
(* consecutive invocations are one interval apart and the time the bodies  *)
(* take does not add up to a delay.                                        *)
C18_FixedSchedule ==
    timer.pc = "work" /\ ~timer.slow =>
        /\ timer.next_time = timer.start + timer.k * interval
        /\ timer.now = timer.next_time

(* the fourth invocation, after bodies that took time but less than the    *)
(* interval                                                                *)
C18_Witness ==
    /\ timer.pc = "work"
    /\ ~timer.slow
    /\ timer.k = 3
    /\ timer.worked >= 5
    /\ timer.now = timer.start + 3 * interval

(***************************************************************************)
(* Properties of the shutdown                                              *)
(***************************************************************************)
(* C19: once the interrupt flag is set no loop passes its cycle top into   *)
(* another work body; a work body in flight is not cut short (it ends in   *)
(* the sleep of its cycle or by its own exception); the process exits with *)
(* code 0 only after both loops have ended; and from the moment the flag   *)
(* is set both loops end and the process exits with code 0.                *)
C19_Shutdown ==
    /\ [][\A t \in Threads :
             /\ interrupt /\ loop_pc[t] = "top" => loop_pc'[t] # "work"
             /\ loop_pc[t] = "work" /\ loop_pc'[t] # "work" =>
                   loop_pc'[t] \in {"sleep", "raised"}]_vars
    /\ [](exit_code = 0 => \A t \in Threads : Ended(t))
    /\ (interrupt ~> ((\A t \in Threads : Ended(t)) /\ exit_code = 0))

(* both loops have run cycles, have seen the flag and returned, and the    *)
(* process has exited with code 0                                          *)
C19_Witness ==
    /\ interrupt
    /\ \A t \in Threads : loop_pc[t] = "returned"
    /\ exit_code = 0
    /\ Keys(util_cons) # {}
    /\ Keys(metric_cons) # {}

(***************************************************************************)
(* Properties of a failing work body                                       *)
(***************************************************************************)
(* C20: once the work body of one loop has raised, no loop passes its      *)
(* cycle top into another work body (the other loop stops starting new     *)
(* cycles).                                                                *)
C20_FailureStopsAgent ==
    [][(\E u \in Threads : loop_pc[u] = "raised") =>
          \A t \in Threads : ~(loop_pc[t] = "top" /\ loop_pc'[t] = "work")]_vars

(* the metrics loop has raised in set_metrics (line 120), main still waits *)
(* in util_thread.join(), and the utilization loop has finished a cycle    *)
(* after the failure and is in the next one                                *)
C20_LoopRunsAlone ==
    /\ args.detect
    /\ metric_cons["lc1"].metrics # <<>>
    /\ loop_pc["metric"] = "raised"
    /\ call.op \in {"cycle", "cycle+update"}
    /\ loop_pc["util"] = "work"
    /\ main_pc = "join_util"
    /\ ~interrupt
    /\ exit_code = -1

(***************************************************************************)
(* Properties of a failing counter collector                               *)
(***************************************************************************)
(* C21: a metrics cycle in which the collector gave no counters, or no     *)
(* parsable counters, for some LC containers leaves the metrics loop       *)
(* running, runs no detection, and leaves the counter snapshot and the     *)
(* history of each of these containers as they were.                       *)
C21_CollectorFailureSwallowed ==
    [][call'.op = "metrics" /\ call'.failed # {} =>
          /\ metric_thread' = "running"
          /\ ~det'.done
          /\ \A c \in call'.failed :
                /\ metric_cons'[c].metrics =
                      IF metric_cons[c].present THEN metric_cons[c].metrics
                      ELSE <<>>
                /\ metric_cons'[c].history =
                      IF metric_cons[c].present THEN metric_cons[c].history
                      ELSE 0]_vars

(* detection is off, the LC record has a snapshot of an earlier cycle, the *)
(* collector's output is not parsable, and the metrics loop has ended      *)
C21_ParseFailureEndsLoop ==
    /\ ~args.detect
    /\ call.op = "metrics"
    /\ "lc1" \in call.failed
    /\ metric_cons["lc1"].metrics # <<>>
    /\ metric_thread = "raised"

(***************************************************************************)
(* Properties of the processes the cycles start                            *)
(***************************************************************************)
(* C22: no cycle begins while a process started by an earlier cycle of its *)
(* loop is still running, the processes of a loop end in the order they    *)
(* were started, and when no process is running every target holds what   *)
(* the process started last for it wrote.                                  *)
C22_ProcessesAwaited ==
    /\ ~procs.carried
    /\ procs.inorder
    /\ procs.pending = {} =>
          \A t \in Targets : procs.effect[t] = procs.issued[t]

(* all processes have ended and be1's cfs quota holds the value of an      *)
(* earlier write, not of the last one                                      *)
C22_StaleWriteWins ==
    /\ procs.pending = {}
    /\ procs.issued["cpu.cfs_quota_us be1"] # NoValue
    /\ procs.effect["cpu.cfs_quota_us be1"]
          # procs.issued["cpu.cfs_quota_us be1"]

(***************************************************************************)
(* Properties of the remembered system max                                 *)
(***************************************************************************)
(* C23: over the utilization cycles the remembered system max never        *)
(* decreases; it changes only in a cycle whose total LC utilization        *)
(* exceeds it; after such a cycle it is the integer part of that total,    *)
(* and with control enabled the CPU-quota resource's maximum is the quota  *)
(* of that same value.                                                     *)
C23_SysMaxFollowsLc ==
    [][/\ sysmax_util' >= sysmax_util
       /\ sysmax_util' # sysmax_util => CycleLcUtils' > Percent(sysmax_util)
       /\ CycleLcUtils' > Percent(sysmax_util) =>
             /\ sysmax_util' = CycleLcUtils' \div Percent(1)
             /\ args.control =>
                   cpuq'.quota_max = sysmax_util' * CPU_QUOTA_PERCENT]_vars

(* the remembered max is 22 and the resource's maximum is the quota of     *)
(* 22.01                                                                   *)
C23_FractionPropagated ==
    /\ args.control
    /\ call.op \in {"cycle", "cycle+update"}
    /\ sysmax_util = 22
    /\ CycleLcUtils = Percent(22) + 1
    /\ cpuq.quota_max = 22 * CPU_QUOTA_PERCENT + 10

(***************************************************************************)
(* Properties of the per-record step of a detecting metrics cycle          *)
(***************************************************************************)
(* C24: in a metrics cycle with detection enabled in which the collector   *)
(* reported counters for the LC record, the record's derived metrics are   *)
(* recomputed from them, one snapshot is appended to its history, the      *)
(* detections are run, and the metrics loop stays alive for its next       *)
(* cycle.                                                                  *)
C24_RecordStepCompletes ==
    [][call'.op = "metrics" /\ args.detect /\ call'.failed = {}
          /\ "lc1" \in call'.listed =>
          /\ CycleLc'.metrics.CPI =
                IF CycleLc'.metrics.INST = 0 THEN F(0)
                ELSE F(CycleLc'.metrics.CYC \div CycleLc'.metrics.INST)
          /\ CycleLc'.utils = 0 => CycleLc'.metrics.NF = F(0)
          /\ CycleLc'.history =
                HistoryAppend(IF CycleLc.present THEN CycleLc.history ELSE 0)
          /\ det'.done
          /\ metric_thread' = "running"]_vars

(* detection is on, the record's metrics have been derived from the        *)
(* counters of this cycle, nothing is in its history, no detection has     *)
(* run and the metrics loop has ended                                      *)
C24_HistoryAppendRaises ==
    /\ args.detect
    /\ call.op = "metrics"
    /\ call.failed = {}
    /\ CycleLc.present
    /\ CycleLc.metrics # <<>>
    /\ CycleLc.metrics.CPI = F(3)
    /\ CycleLc.history = 0
    /\ ~det.done
    /\ metric_thread = "raised"

(***************************************************************************)
(* Properties of a record's history                                        *)
(***************************************************************************)
(* the last n elements of a sequence *)
LastOf(q, n) == SubSeq(q, Len(q) - n + 1, Len(q))
Smaller(a, b) == IF a < b THEN a ELSE b

(* C25: after any appends and updates of the current metrics, the history  *)
(* holds the last H snapshots appended (all of them while fewer than H     *)
(* have arrived), in arrival order and as they were when appended, where   *)
(* H = depth + 1 is the deque's maxlen, which never changes.               *)
C25_HistoryIsLastH ==
    /\ lc.maxlen = lc.depth + 1
    /\ Len(lc.metricsHistory) <= lc.maxlen
    /\ lc.metricsHistory =
          LastOf(lc.arrived, Smaller(lc.maxlen, Len(lc.arrived)))

(* seven snapshots have arrived at a history of six, which has dropped the *)
(* oldest, and the current metrics have been overwritten since             *)
C25_Witness ==
    /\ lc.maxlen = 6
    /\ Len(lc.arrived) = 7
    /\ lc.metricsHistory = Tail(lc.arrived)
    /\ lc.arrived[1] # lc.arrived[2]
    /\ lc.metrics # lc.metricsHistory[6]

(* the delta of a column for the history the deltas were taken on *)
DeltaIsLastMinusMean(delta, columnname) ==
    LET q == lc.metricsHistory
        n == Len(q)
    IN  /\ n = 0 => delta = 0
        /\ n = 1 => delta = q[1][columnname]
        /\ n > 1 =>
              (n - 1) * (q[n][columnname] - delta)
                  = SumColumn(q, columnname, n - 1)

(* C26: the LLC-occupancy delta and the frequency delta are the latest     *)
(* sample of the history minus the mean of the samples before it (the      *)
(* sample itself when it is the only one, 0 for an empty history), and the *)
(* latest memory-bandwidth total is MBL + MBR of the current metrics.      *)
C26_Deltas ==
    det.done =>
        /\ DeltaIsLastMinusMean(det.llc, "L3OCC")
        /\ DeltaIsLastMinusMean(det.freq, "NF")
        /\ det.mbt = lc.metrics.MBL + lc.metrics.MBR

(* deltas taken on a full history whose latest sample differs from the     *)
(* mean of the five before it                                              *)
C26_Witness ==
    /\ det.done
    /\ Len(lc.metricsHistory) = 6
    /\ det.llc # 0
    /\ det.llc # lc.metricsHistory[6].L3OCC
    /\ det.freq # 0

(***************************************************************************)
(* Properties of the order of the steps of a cycle                         *)
(***************************************************************************)
Positions(kind) ==
    {i \in 1..Len(CycleSteps(call)) : CycleSteps(call)[i].step = kind}
Before(is, js) == \A i \in is, j \in js : i < j
FirstSeen == call.listed \ call.had

(* C27 as claimed: in every cycle of either loop the steps come in the     *)
(* order discovery, per-container update, detection, controller update,    *)
(* budget application: every budget is applied after the cycle's           *)
(* controller update has been made.                                        *)
C27_BudgetAfterControl ==
    /\ Before(Positions("discover"), Positions("update"))
    /\ Before(Positions("update") \cup Positions("detect"),
              Positions("control"))
    /\ Positions("budget") # {} => Positions("control") # {}
    /\ Before(Positions("control"), Positions("budget"))

(* C27, corrected: in every cycle of either loop discovery comes first,    *)
(* the controller update comes after every container has been updated and *)
(* checked, and a budget is applied after the controller update, except    *)
(* the budget a BE container gets when the cycle sees it for the first     *)
(* time, which is applied during discovery; the controller's budget is the *)
(* one of the level after the update.                                      *)
C27_BudgetAfterControlOrFirstSeen ==
    /\ Before(Positions("discover"), Positions("update"))
    /\ Before(Positions("update") \cup Positions("detect"),
              Positions("control"))
    /\ \A i \in Positions("budget") :
          \/ Positions("control") # {} /\ Before(Positions("control"), {i})
          \/ CycleSteps(call)[i].cid \in FirstSeen \cap be_set
    /\ call.op \in {"cycle", "cycle+update"} /\ call.budgeted =>
          \A c \in call.bes :
             call.written[c] = budgeting(cpuq, call.bes, call.period)[c]
    /\ call.op = "metrics" /\ call.budgeted =>
          \A c \in call.bes : call.written[c] = LlcBudgeting(llc, call.bes)[c]

(* a utilization cycle that first saw BE container be1, wrote its quota    *)
(* during discovery, then updated the controller and applied the budget    *)
C27_Witness ==
    /\ call.op = "cycle+update"
    /\ "be1" \in FirstSeen
    /\ call.budgeted
    /\ Cardinality(Positions("budget")) = 2
    /\ Keys(metric_cons) = {"lc1", "be1"}

(***************************************************************************)
(* Properties of the quartile fence                                        *)
(***************************************************************************)
(* the value that k values of the sample precede in ascending order: fewer *)
(* than k + 1 values are smaller and more than k are not larger            *)
AtRank(mdf, k) ==
    CHOOSE v \in {mdf[i] : i \in DOMAIN mdf} :
        /\ Cardinality({i \in DOMAIN mdf : mdf[i] < v}) <= k
        /\ Cardinality({i \in DOMAIN mdf : mdf[i] <= v}) > k
Orders(n) ==
    {f \in [1..n -> 1..n] : \A i, j \in 1..n : f[i] = f[j] => i = j}
Reordered(mdf, f) == [i \in DOMAIN mdf |-> mdf[f[i]]]

(* C28: for every non-empty sample of size n and threshold t the quartile  *)
(* fence takes q1 and q3 at the positions floor(n/4) and floor(3n/4) of    *)
(* the sorted sample, returns q3 + IQR * (3t/4 - 2/3) as the upper and     *)
(* q1 - IQR * (3t/4 - 2/3) as the lower fence (here in twelfths), and      *)
(* gives the same fence for the sample in any other order.                 *)
C28_QuartileFence ==
    builder.pc = "fenced" /\ builder.mdf # <<>> =>
        LET n == Len(builder.mdf)
            q1 == AtRank(builder.mdf, n \div 4)
            q3 == AtRank(builder.mdf, (3 * n) \div 4)
            t == builder.thresh
        IN  /\ ~builder.fence.raised
            /\ builder.fence.val.twelfths =
                  IF builder.is_upper
                  THEN 12 * q3 + (q3 - q1) * (9 * t - 8)
                  ELSE 12 * q1 - (q3 - q1) * (9 * t - 8)
            /\ \A f \in Orders(n) :
                  get_quartile(t, Reordered(builder.mdf, f),
                               builder.is_upper) = builder.fence

(* the upper fence of the unsorted sample 8, 1, 4, 2 with threshold 4:     *)
(* q1 = 2, q3 = 8, fence 8 + 6 * 7/3 = 22                                  *)
C28_Witness ==
    /\ builder.pc = "fenced"
    /\ builder.mdf = <<8, 1, 4, 2>>
    /\ builder.thresh = 4
    /\ builder.is_upper
    /\ builder.fence = Returned([k |-> "fin", twelfths |-> 12 * 22])

(***************************************************************************)
(* Properties of the builder's utilization bins                            *)
(***************************************************************************)
BinDone == builder.pc \in {"workload", "bins", "done"} /\ builder.bin.index >= 0
RowsOf(cid) == {i \in DOMAIN builder.mdf : builder.mdf[i].CID = cid}

(* C29: for a workload with c requested CPUs the bins start at 50c,        *)
(* 50c + 50, ... strictly below 100(c+1); a bin ends where the next one    *)
(* starts and the last one a step above its start; a row of the workload   *)
(* is assigned to a bin iff lo <= utilization <= hi.                       *)
C29_Bins ==
    BinDone =>
        LET bin == builder.bin
            c == workloadinfo[bin.cid]
            in_bin == {i \in RowsOf(bin.cid) :
                          /\ bin.lower_bound <= builder.mdf[i].UTIL
                          /\ builder.mdf[i].UTIL <= bin.higher_bound}
        IN  /\ bin.lower_bound = 50 * c + 50 * bin.index
            /\ bin.lower_bound < 100 * (c + 1)
            /\ bin.higher_bound = bin.lower_bound + 50
            /\ builder.pc = "bins" /\ builder.index > 0 =>
                  /\ builder.index = bin.index + 1
                  /\ bin.higher_bound < 100 * (c + 1)
            /\ builder.pc \in {"workload", "done"} =>
                  bin.higher_bound >= 100 * (c + 1)
            /\ Len(bin.rows) = Cardinality(in_bin)
            /\ \A i \in RowsOf(bin.cid) :
                  i \in in_bin <=> \E j \in DOMAIN bin.rows :
                                      bin.rows[j] = builder.mdf[i]

(* the last bin [150, 200] of the 1-CPU workload takes the row at 200, its *)
(* upper bound, and not the rows at 100 and 120                            *)
C29_Witness ==
    /\ BinDone
    /\ builder.bin.cid = "a"
    /\ builder.bin.lower_bound = 150
    /\ builder.bin.higher_bound = 200
    /\ Len(builder.bin.rows) = 1
    /\ builder.bin.rows[1].UTIL = 200
    /\ {builder.mdf[i].UTIL : i \in RowsOf("a")} = {100, 120, 200}

(***************************************************************************)
(* Properties of the builder's skipped bins                                *)
(***************************************************************************)
RowsFor(bin) ==
    {i \in DOMAIN builder.thresh_csv :
        /\ builder.thresh_csv[i].CID = bin.cid
        /\ builder.thresh_csv[i].UTIL_START = bin.lower_bound}
Unusable(row) == NaN \in {row.CPI_THRESH, row.MPKI_THRESH, row.MB_THRESH}

(* C30: for every fence strategy a bin whose filtered sample is empty, or   *)
(* whose fence has no usable value, produces no row of thresh.csv: no row  *)
(* is written for an empty bin and no written row holds an unusable        *)
(* threshold.                                                              *)
C30_EmptyBinSkipped ==
    /\ BinDone /\ builder.bin.rows = <<>> =>
          builder.bin.skipped /\ RowsFor(builder.bin) = {}
    /\ builder.pc # "none" =>
          \A i \in DOMAIN builder.thresh_csv :
             ~Unusable(builder.thresh_csv[i])

(* with the normal strategy the empty first bin of workload a has been     *)
(* given a row of thresh.csv, with NaN for its three thresholds            *)
C30_NormalEmptyBinRow ==
    /\ BinDone
    /\ builder.fense_type = "normal"
    /\ builder.bin.cid = "a"
    /\ builder.bin.index = 0
    /\ builder.bin.rows = <<>>
    /\ ~builder.bin.skipped
    /\ \E i \in RowsFor(builder.bin) :
          /\ builder.thresh_csv[i].CPI_THRESH = NaN
          /\ builder.thresh_csv[i].MPKI_THRESH = NaN
          /\ builder.thresh_csv[i].MB_THRESH = NaN

(* what holds of C30: with the quartile and the mixture strategies an      *)
(* empty bin is skipped, and with every strategy each bin of each workload *)
(* of the file is visited whatever happened to the bins before it          *)
C30_SkippedElsewhere ==
    /\ BinDone /\ builder.fense_type # "normal" /\ builder.bin.rows = <<>> =>
          builder.bin.skipped /\ RowsFor(builder.bin) = {}
    /\ BinDone /\ ~builder.bin.skipped => RowsFor(builder.bin) # {}
    /\ builder.pc = "done" /\ builder.mdf # <<>> =>
          /\ builder.w = Len(Unique(builder.mdf)) + 1
          /\ builder.bin.cid = Unique(builder.mdf)[builder.w - 1]

(***************************************************************************)
(* Properties of the controller's budgeting                                *)
(***************************************************************************)
LevelChanged == cpuq.quota_level # PreRes.quota_level
Throttled ==
    call.detected /\ PreRes.quota_level # BUGET_LEV_MIN
Increased ==
    /\ ~call.detected /\ ~call.hold
    /\ PreRes.quota_level # BUGET_LEV_FULL
    /\ PreCtl.cyc_cnt + 1 >= PreCtl.cyc_thresh

(* C31: the controller invokes budgeting(be_containers) in exactly the     *)
(* update calls that change the resource level (a throttle from a level    *)
(* other than MIN, or the increase on the T-th quiet cycle), after the     *)
(* level change and with the BE list of the call; a detection at MIN       *)
(* invokes no budgeting.                                                   *)
C31_BudgetIffLevelChange ==
    IsUpdate =>
        /\ call.budgeted <=> LevelChanged
        /\ call.budgeted <=> (Throttled \/ Increased)
        /\ call.budgeted =>
              /\ DOMAIN call.written = call.bes
              /\ call.written = budgeting(cpuq, call.bes, call.period)
        /\ ~call.budgeted => call.written = NoWrite
        /\ call.detected /\ PreRes.quota_level = BUGET_LEV_MIN =>
              ~call.budgeted /\ call.written = NoWrite

(* the third quiet call at level 2 raises the level to 3 and writes the    *)
(* quota of level 3 to both BE containers of the call                      *)
C31_Witness ==
    /\ IsUpdate /\ ~call.detected /\ ~call.hold
    /\ PreCtl.cyc_thresh = 3 /\ PreCtl.cyc_cnt = 2
    /\ PreRes.quota_level = 2
    /\ cpuq.quota_level = 3
    /\ call.bes = {"be1", "be2"}
    /\ call.budgeted
    /\ \A c \in call.bes :
          call.period[c] = CPU_QUOTA_CORE =>
              call.written[c] = cpuq.cpu_quota \div 2

(***************************************************************************)
(* Properties of update_cpu_usage                                          *)
(***************************************************************************)
(* C32: when the cgroup read gives no integer update_cpu_usage leaves the  *)
(* utilization, the last CPU-time sample and the last wall-clock sample    *)
(* unchanged; otherwise it stores both new samples and, when a previous    *)
(* sample exists, sets the utilization to 100 * delta CPU time / delta     *)
(* wall time.                                                              *)
C32_UsageUpdate ==
    call.op = "update_cpu_usage" =>
        IF call.res = NoInteger
        THEN lc.con = call.pre
        ELSE /\ lc.con.cpu_usage = call.res
             /\ lc.con.timestamp = call.cur
             /\ call.had =>
                   lc.con.utils = <<100 * (call.res - call.pre.cpu_usage),
                                    call.cur - call.pre.timestamp>>
             /\ ~call.had => lc.con.utils = call.pre.utils

(* a failed read between two samples: the samples of time 1 are kept at    *)
(* time 3, and the read of time 4 is measured against them                 *)
C32_Witness ==
    /\ call.op = "update_cpu_usage"
    /\ call.res = NoInteger
    /\ call.cur = 3
    /\ call.pre = [cpu_usage |-> 2, utils |-> <<0, 1>>, timestamp |-> 1]
    /\ lc.con = call.pre

(***************************************************************************)
(* Properties of the levels a controlled resource takes                    *)
(***************************************************************************)
(* C33: a resource driven only by its controller from its initial level is *)
(* always at FULL or at a level in 0..19: increase_level is never applied  *)
(* at FULL, level 19 increases to FULL, and MAX is never a level the       *)
(* resource rests at.                                                      *)
C33_LevelRange ==
    /\ cpuq.quota_level \in
          {BUGET_LEV_FULL} \cup BUGET_LEV_MIN..(BUGET_LEV_MAX - 1)
    /\ cpuq.quota_level # BUGET_LEV_MAX
    /\ IsUpdate /\ ~call.detected /\ LevelChanged =>
          /\ PreRes.quota_level # BUGET_LEV_FULL
          /\ cpuq.quota_level =
                IF PreRes.quota_level = BUGET_LEV_MAX - 1
                THEN BUGET_LEV_FULL
                ELSE PreRes.quota_level + 1
    /\ IsUpdate /\ ~call.detected /\ PreRes.quota_level = BUGET_LEV_FULL =>
          cpuq = PreRes

(* the quiet call that takes the resource from level 19 to FULL *)
C33_Witness ==
    /\ IsUpdate /\ ~call.detected /\ ~call.hold
    /\ PreRes.quota_level = BUGET_LEV_MAX - 1
    /\ cpuq.quota_level = BUGET_LEV_FULL
    /\ cpuq.cpu_quota = CPU_QUOTA_DEFAULT

(***************************************************************************)
(* Properties of the quiet-cycle counter                                   *)
(***************************************************************************)
(* C34: for a controller with threshold T >= 1 the quiet-cycle counter is  *)
(* at least 0 and below T after any sequence of update calls, and it is 0  *)
(* after every call that changed the resource level.                       *)
C34_CounterRange ==
    /\ quota_controller.cyc_thresh >= 1
    /\ 0 <= quota_controller.cyc_cnt
    /\ quota_controller.cyc_cnt < quota_controller.cyc_thresh
    /\ IsUpdate /\ LevelChanged => quota_controller.cyc_cnt = 0

(* a detection after two quiet calls at level 4 with T = 3: the resource   *)
(* goes to MIN and the count of 2 is dropped                               *)
C34_Witness ==
    /\ IsUpdate /\ call.detected
    /\ PreCtl.cyc_thresh = 3 /\ PreCtl.cyc_cnt = 2
    /\ PreRes.quota_level = 4
    /\ cpuq.quota_level = BUGET_LEV_MIN
    /\ quota_controller.cyc_cnt = 0

(***************************************************************************)
(* Properties of a cycle that raises the system max                        *)
(***************************************************************************)
(* C35: in a utilization cycle with control enabled, a BE container listed *)
(* and a margin ratio above 0, a total LC utilization above the remembered *)
(* system max makes the cycle invoke the controller with detected = true:  *)
(* the margin test is made against the new maximum, and the resource is at *)
(* MIN when the cycle ends.                                                *)
C35_NewMaxThrottles ==
    [][(/\ args.control
        /\ args.margin_tenths > 0
        /\ call'.op \in {"cycle", "cycle+update"}
        /\ call'.bes # {}
        /\ CycleLcUtils' > Percent(sysmax_util)) =>
           /\ call'.op = "cycle+update"
           /\ call'.detected
           /\ cpuq'.quota_max >= Percent(sysmax_util') * 10
           /\ CycleDemand' > cpuq'.quota_max
           /\ cpuq'.quota_level = BUGET_LEV_MIN
           /\ quota_controller'.cyc_cnt = 0]_vars

(* an idle BE container and LC containers at 22.01% against a remembered   *)
(* max of 20: the cycle has raised the max to 22 and throttled             *)
C35_Witness ==
    /\ args.control
    /\ args.margin_tenths = 1
    /\ call.op = "cycle+update"
    /\ call.bes = {"be1"}
    /\ call.detected
    /\ CycleBeUtils = 0
    /\ CycleLcUtils = Percent(22) + 1
    /\ sysmax_util = 22
    /\ CycleDemand > cpuq.quota_max
    /\ cpuq.quota_level = BUGET_LEV_MIN

(***************************************************************************)
(* Properties of the quotas of the live BE containers                      *)
(***************************************************************************)
LiveBes == Listed(util_cons) \cap be_set
RECURSIVE SumQuota(_)
SumQuota(cs) ==
    IF cs = {} THEN 0
    ELSE LET c == CHOOSE x \in cs : TRUE
         IN  procs.quota[c] + SumQuota(cs \ {c})

(* C36: whenever the CPU-quota resource is at a level other than MIN or    *)
(* FULL, the CFS quotas last written to the live BE containers (period     *)
(* 100000) add up to at most the resource's platform quota, for any        *)
(* sequence of BE containers appearing and disappearing between level      *)
(* changes.                                                                *)
C36_QuotaSumBounded ==
    cpuq.quota_level \notin {BUGET_LEV_MIN, BUGET_LEV_FULL} =>
        SumQuota(LiveBes) <= cpuq.cpu_quota

(* be2 appears in a cycle that leaves the level at 2: it is written the    *)
(* whole platform quota, which be1 already holds                           *)
C36_NewBeGetsWholeQuota ==
    /\ call.op = "cycle+update"
    /\ ~call.budgeted
    /\ cpuq.quota_level = 2
    /\ LiveBes = {"be1", "be2"}
    /\ call.enrolled = {"be2"}
    /\ procs.quota["be1"] = cpuq.cpu_quota
    /\ procs.quota["be2"] = cpuq.cpu_quota
    /\ SumQuota(LiveBes) = 2 * cpuq.cpu_quota

(***************************************************************************)
(* Properties of the lists given to budgeting                              *)
(***************************************************************************)
(* C37: in every reachable state of the agent CpuQuota.budgeting and       *)
(* LlcOccup.budgeting are invoked with a non-empty container list only: a  *)
(* controller is updated only in a cycle that found a BE container, and    *)
(* new BE containers are enrolled only when there is one.                  *)
C37_BudgetingListNonEmpty ==
    /\ \A l \in BudgetingLists(call) : l # {} /\ l \subseteq be_set
    /\ call.op \in {"cycle+update"} => call.bes # {}
    /\ call.op = "metrics" /\ call.updated # {} => call.bes # {}
    /\ call.op \in {"metrics", "cycle", "cycle+update"} =>
          /\ call.budgeted => call.bes # {}
          /\ DOMAIN call.written # {} => BudgetingLists(call) # {}

(* a metrics cycle that lists no new BE container and updates no           *)
(* controller calls no budgeting, and one that first sees be1 calls it     *)
(* with be1 alone                                                          *)
C37_Witness ==
    /\ call.op = "metrics"
    /\ call.enrolled = {"be1"}
    /\ ~call.budgeted
    /\ BudgetingLists(call) = {{"be1"}}
    /\ DOMAIN call.written = {"be1"}

(***************************************************************************)
(* Properties of monitor after a work body that overruns                   *)
(***************************************************************************)
(* C38: every invocation of the work body after the first starts at        *)
(* start + m * interval for an integer m, strictly after the previous body *)
(* returned and with m above the previous one, so the loop has slept a     *)
(* positive time between the two; the boundaries a body ran over are       *)
(* skipped, the invocation being at the first boundary after the return.   *)
C38_MissedSlotsSkipped ==
    timer.pc = "work" /\ timer.k >= 1 =>
        LET m == (timer.now - timer.start) \div interval
            before == (timer.begun - timer.start) \div interval
        IN  /\ timer.now = timer.start + m * interval
            /\ timer.begun = timer.start + before * interval
            /\ m > before
            /\ timer.now > timer.ended
            /\ timer.now - interval <= timer.ended
            /\ timer.now = timer.next_time

(* a first body of 4 ticks runs over the boundary at 3: the second         *)
(* invocation is at 6, after a sleep of 2 ticks                            *)
C38_Witness ==
    /\ timer.pc = "work"
    /\ timer.k = 1
    /\ timer.begun = timer.start
    /\ timer.ended = timer.start + interval + 1
    /\ timer.now = timer.start + 2 * interval


=============================================================================
